---- MODULE Spec2Model ----
(***************************************************************************)
(* Review capture / publish pipeline of social-media-operator.             *)
(*                                                                         *)
(* Text is modelled as a sequence of character code points, so that the    *)
(* caption built by generate_post_content and the parsing done by          *)
(* is_duplicate_review are computed character by character.                *)
(*                                                                         *)
(* Specifications:                                                         *)
(*   SpecDup   the Duplicate Index and the Post Record Builder called as   *)
(*             functions on a store that also holds foreign records        *)
(*   SpecFind  find_best_review applied to pages of review cards           *)
(*   Spec      capture runs and publish runs on one store, one run at a    *)
(*             time (single-writer usage)                                  *)
(*   SpecLogin calls of google_login of google_login.py, and the login of  *)
(*             a capture run up to its listing navigation                  *)
(*   SpecClip  the clip rectangle of screenshot_review_card on bounding    *)
(*             boxes in and around the viewport                            *)
(*   SpecCard  render_card and render_card_pillow of render_review_card.py *)
(*             writing image files as a clock advances                     *)
(*   SpecRace  two capture runs saving their records with no single-writer *)
(*             discipline                                                  *)
(*   SpecUid   save_post called many times a day, for the sequence letter  *)
(*             of generate_uid                                             *)
(*   SpecOverlap  capture runs saving their records while a publish run is *)
(*             under way                                                   *)
(***************************************************************************)
EXTENDS Integers, Sequences, FiniteSets, TLC

VARIABLES
    store,       \* data/posts.json: the "posts" array, oldest first
    today,       \* datetime.now().strftime("%m%d"), as a number
    probe,       \* SpecDup: last is_duplicate_review call and its result
    savedTexts,  \* SpecDup: the review texts passed to save_post so far
    cards,       \* SpecFind: the review cards of the page given to find_best_review
    found,       \* SpecFind: what find_best_review returned for cards
    pc,          \* Spec: position of the capture run
    sel,         \* Spec: (card, rating, text, name) chosen by find_best_review
    result,      \* Spec: return value of capture_google_maps_review
    store0,      \* Spec: the store as it was when the capture run started
    ctx,         \* Spec: which browser objects are open
    artifact,    \* Spec: the screenshot file the capture run has produced, if any
    lg,          \* the google_login call in progress: position, fills, diagnostics, result
    err,         \* Spec: the step whose exception the capture run's except branch caught
    via,         \* Spec: why the capture run took the template-card path
    shot,        \* Spec: what the last screenshot_review_card call met and returned
    pubPc,       \* Spec: position of the publish run
    pubData,     \* Spec: publish.py's in-memory copy of the store ("data")
    pubQueue,    \* Spec: indices into pubData of the posts still to publish
    sends,       \* history: the uids published with success, how often, and whether
                 \* the record was handed to post_to_x_via_rube after that
    bbox,        \* SpecClip: what card.bounding_box() returned
    clip,        \* SpecClip: the clip rectangle passed to page.screenshot
    now,         \* SpecCard: datetime.now(), in whole seconds
    files,       \* SpecCard: the image files in the output directory
    call,        \* SpecCard: the render_card / render_card_pillow call in progress
    writers      \* SpecRace: the save_post calls of the concurrent capture runs

dupVars == <<probe, savedTexts>>
findVars == <<cards, found>>
capVars == <<pc, sel, result, store0, ctx, artifact, lg, err, via, shot>>
pubVars == <<pubPc, pubData, pubQueue, sends>>
clipVars == <<bbox, clip>>
cardVars == <<now, files, call>>
raceVars == <<writers>>
toolVars == <<clipVars, cardVars, raceVars>>
vars == <<store, today, probe, savedTexts, cards, found, pc, sel, result, store0, ctx,
          artifact, lg, err, via, shot, pubPc, pubData, pubQueue, sends, bbox, clip, now,
          files, call, writers>>

----------------------------------------------------------------------------
(* Bounds of the model *)

\* largest number of records the store grows to
MaxStore == 2

\* largest number of freely chosen cards on a page (after the filler cards)
MaxTail == 2

----------------------------------------------------------------------------
(* Characters and program constants *)

DQUOTE == 34
DOT == 46
SPACE == 32
NEWLINE == 10
ORD_A == 97

\* review_text[:150] in generate_post_content
CaptionLimit == 150
\* [:100] in is_duplicate_review
PrefixLen == 100
\* review_cards[:20] in find_best_review
CardLimit == 20
\* rating >= 4 in find_best_review
MinRating == 4
\* len(review_text) > 10 in find_best_review
MinTextLen == 10
\* the rating the fallback card is saved with
FallbackRating == 5

None == "None"
NoUid == [mmdd |-> 0, seq |-> 0]

Ellipsis == <<DOT, DOT, DOT>>

Rep(c, n) == [i \in 1..n |-> c]

SetMin(S) == CHOOSE x \in S : \A y \in S : x <= y

----------------------------------------------------------------------------
(* Python string operations used by the scripts *)

IsSpace(c) == c \in {9, 10, 11, 12, 13, 28, 29, 30, 31, 32}

\* str.strip(): drop the leading and the trailing run of whitespace
Strip(s) ==
    LET lead == Cardinality({i \in 1..Len(s) : \A j \in 1..i : IsSpace(s[j])})
        trail == Cardinality({i \in 1..Len(s) : \A j \in i..Len(s) : IsSpace(s[j])})
    IN IF lead = Len(s) THEN <<>> ELSE SubSeq(s, lead + 1, Len(s) - trail)

\* s[:n]
Slice(s, n) == SubSeq(s, 1, IF Len(s) < n THEN Len(s) ELSE n)

\* s.find(c, start): 0-based index of the first c at or after start, else -1
Find(s, c, start) ==
    LET hits == {i \in start..(Len(s) - 1) : s[i + 1] = c}
    IN IF hits = {} THEN -1 ELSE SetMin(hits)

\* s.endswith(suf)
EndsWith(s, suf) ==
    /\ Len(s) >= Len(suf)
    /\ SubSeq(s, Len(s) - Len(suf) + 1, Len(s)) = suf

\* s.startswith(c) for a single character c
StartsWithChar(s, c) == Len(s) > 0 /\ s[1] = c

----------------------------------------------------------------------------
(* Post Record Builder: capture_gmap_review.py *)

\* "\n\nThank you for sharing your experience!\n\nLink to our Google Map in comments."
CaptionTail ==
    <<10, 10, 84, 104, 97, 110, 107, 32, 121, 111, 117, 32, 102, 111, 114, 32, 115, 104, 97,
      114, 105, 110, 103, 32, 121, 111, 117, 114, 32, 101, 120, 112, 101, 114, 105, 101, 110,
      99, 101, 33, 10, 10, 76, 105, 110, 107, 32, 116, 111, 32, 111, 117, 114, 32, 71, 111, 111,
      103, 108, 101, 32, 77, 97, 112, 32, 105, 110, 32, 99, 111, 109, 109, 101, 110, 116, 115,
      46>>

generate_post_content(review_text, rating) ==
    LET stripped == Strip(review_text)
        shown == IF Len(stripped) > CaptionLimit
                 THEN Slice(stripped, CaptionLimit) \o Ellipsis
                 ELSE stripped
    IN <<DQUOTE>> \o shown \o <<DQUOTE>> \o CaptionTail

\* p["uid"].startswith("tw-" + today): a uid is "tw-" + MMDD + one character,
\* kept as the pair (mmdd, code point of the character)
UidStartsWith(uid, day) == uid.mmdd = day

\* generate_uid that counts every stored record, whatever its day
generate_uid_CountAll(posts, day) ==
    [mmdd |-> day, seq |-> ORD_A + Len(posts)]

\* generate_uid that counts only the records of the day that are still pending
generate_uid_PendingOnly(posts, day) ==
    LET existing == {i \in 1..Len(posts) :
                        UidStartsWith(posts[i].uid, day) /\ posts[i].status = "Pending"}
    IN [mmdd |-> day, seq |-> ORD_A + Cardinality(existing)]

\* generate_uid that gives every record of a day the first letter
generate_uid_FirstLetter(posts, day) == [mmdd |-> day, seq |-> ORD_A]

\* lines 79-84: the letter after those of the records of the day
generate_uid(posts, day) ==
    LET existing == {i \in 1..Len(posts) : UidStartsWith(posts[i].uid, day)}
    IN [mmdd |-> day, seq |-> ORD_A + Cardinality(existing)]

NewPost(posts, day, review_text, rating) ==
    [uid |-> generate_uid(posts, day),
     status |-> "Pending",
     generatedContent |-> generate_post_content(review_text, rating),
     source |-> "google-maps",
     rating |-> rating,
     scheduledAt |-> None,
     approvedAt |-> None,
     postedAt |-> None,
     tweetId |-> None,
     tweetUrl |-> None]

\* save_post: load, build the record, append, write back; the value is the new store
save_post(posts, day, review_text, rating) ==
    Append(posts, NewPost(posts, day, review_text, rating))

----------------------------------------------------------------------------
(* Duplicate Index: capture_gmap_review.py *)

\* ExistingPrefix without the [:100] cut of the stored text
ExistingPrefix_NoSlice(content) ==
    IF StartsWithChar(content, DQUOTE)
    THEN LET end_quote == Find(content, DQUOTE, 1)
         IN IF end_quote > 0
            THEN LET existing_text == SubSeq(content, 2, end_quote)
                     unellipsed == IF EndsWith(existing_text, Ellipsis)
                                   THEN SubSeq(existing_text, 1, Len(existing_text) - 3)
                                   ELSE existing_text
                 IN <<TRUE, Strip(unellipsed)>>
            ELSE <<FALSE, <<>>>>
    ELSE <<FALSE, <<>>>>

\* the text is_duplicate_review reads back out of a stored caption (lines 111-117);
\* <<FALSE, <<>>>> when the caption has no quoted part
ExistingPrefix(content) ==
    IF StartsWithChar(content, DQUOTE)
    THEN LET end_quote == Find(content, DQUOTE, 1)
         IN IF end_quote > 0
            THEN LET existing_text == SubSeq(content, 2, end_quote)
                     unellipsed == IF EndsWith(existing_text, Ellipsis)
                                   THEN SubSeq(existing_text, 1, Len(existing_text) - 3)
                                   ELSE existing_text
                 IN <<TRUE, Slice(Strip(unellipsed), PrefixLen)>>
            ELSE <<FALSE, <<>>>>
    ELSE <<FALSE, <<>>>>

\* ScanPosts without the test of the source tag
RECURSIVE ScanPosts_AnySource(_, _, _)
ScanPosts_AnySource(posts, i, review_prefix) ==
    IF i > Len(posts)
    THEN <<FALSE, NoUid, None>>
    ELSE LET post == posts[i]
             existing == ExistingPrefix(post.generatedContent)
         IN IF existing[1] /\ existing[2] = review_prefix
            THEN <<TRUE, post.uid, post.status>>
            ELSE ScanPosts_AnySource(posts, i + 1, review_prefix)

\* is_duplicate_review that never finds a match
is_duplicate_review_Never(posts, review_text) == <<FALSE, NoUid, None>>

RECURSIVE ScanPosts(_, _, _)
ScanPosts(posts, i, review_prefix) ==
    IF i > Len(posts)
    THEN <<FALSE, NoUid, None>>
    ELSE LET post == posts[i]
             existing == ExistingPrefix(post.generatedContent)
         IN IF post.source # "google-maps"
            THEN ScanPosts(posts, i + 1, review_prefix)
            ELSE IF existing[1] /\ existing[2] = review_prefix
                 THEN <<TRUE, post.uid, post.status>>
                 ELSE ScanPosts(posts, i + 1, review_prefix)

is_duplicate_review(posts, review_text) ==
    ScanPosts(posts, 1, Slice(Strip(review_text), PrefixLen))

----------------------------------------------------------------------------
(* Review texts used as inputs *)

\* "Great service!"
TGreat == <<71, 114, 101, 97, 116, 32, 115, 101, 114, 118, 105, 99, 101, 33>>

\* "Great service!..." : a short review that itself ends with three dots
TGreatEll == TGreat \o Ellipsis

\* "Great service! Highly recommend."
TGreatCand ==
    <<71, 114, 101, 97, 116, 32, 115, 101, 114, 118, 105, 99, 101, 33, 32, 72, 105, 103, 104,
      108, 121, 32, 114, 101, 99, 111, 109, 109, 101, 110, 100, 46>>

\* 'He said "wow" today'
TQuote ==
    <<72, 101, 32, 115, 97, 105, 100, 32, 34, 119, 111, 119, 34, 32, 116, 111, 100, 97, 121>>

\* "  Lovely place, friendly staff \n"
TPadded ==
    <<32, 32, 76, 111, 118, 101, 108, 121, 32, 112, 108, 97, 99, 101, 44, 32, 102, 114, 105,
      101, 110, 100, 108, 121, 32, 115, 116, 97, 102, 102, 32, 10>>

\* "Good"
TShort == <<71, 111, 111, 100>>

\* 160 characters: 100 a's then 60 b's (truncated by generate_post_content)
TLongA == Rep(97, 100) \o Rep(98, 60)

\* the first 150 characters of TLongA followed by other text
TLongA2 == Slice(TLongA, CaptionLimit) \o Rep(100, 5)

\* same first 100 characters as TLongA, different afterwards
TLongB == Rep(97, 100) \o Rep(99, 60)

\* differs from TLongA at character 100
TLongC == Rep(97, 99) \o Rep(98, 61)

\* fallback_text of capture_google_maps_review (150 characters)
FallbackText ==
    <<71, 114, 101, 97, 116, 32, 115, 101, 114, 118, 105, 99, 101, 32, 97, 110, 100, 32, 119,
      111, 110, 100, 101, 114, 102, 117, 108, 32, 101, 120, 112, 101, 114, 105, 101, 110, 99,
      101, 33, 32, 72, 105, 103, 104, 108, 121, 32, 112, 114, 111, 102, 101, 115, 115, 105, 111,
      110, 97, 108, 32, 116, 101, 97, 109, 32, 116, 104, 97, 116, 32, 114, 101, 97, 108, 108,
      121, 32, 99, 97, 114, 101, 115, 32, 97, 98, 111, 117, 116, 32, 116, 104, 101, 32, 114,
      101, 115, 117, 108, 116, 46, 32, 87, 105, 108, 108, 32, 100, 101, 102, 105, 110, 105, 116,
      101, 108, 121, 32, 98, 101, 32, 99, 111, 109, 105, 110, 103, 32, 98, 97, 99, 107, 46, 32,
      72, 105, 103, 104, 108, 121, 32, 114, 101, 99, 111, 109, 109, 101, 110, 100, 33>>

\* texts looked up in SpecDup, and the ones among them that are also saved
DupTexts == {TGreatEll, TGreatCand, TQuote, TPadded, TLongA, TLongA2, TLongB, TLongC}
DupSaveTexts == {TGreatEll, TQuote, TPadded, TLongA, TLongB}

Days == {101, 102}

Ratings == {4, 5}

----------------------------------------------------------------------------
(* State shared by the specifications when a part of the system is not running *)

NoProbe == [asked |-> FALSE, text |-> <<>>, res |-> <<FALSE, NoUid, None>>]
NoSel == [card |-> 0, rating |-> 0, text |-> <<>>, name |-> ""]
\* capture_google_maps_review returning None; also the value before it has returned
NoResult ==
    [status |-> None, post_id |-> NoUid, existing_uid |-> NoUid, existing_status |-> None,
     rating |-> 0, review_text |-> <<>>]
NoFound == [asked |-> FALSE, best |-> NoSel]
ClosedCtx == [browser |-> FALSE, main |-> FALSE, fb |-> FALSE]
\* no page looked at
NoPage ==
    [pw |-> None, url |-> <<>>, readable |-> FALSE, html |-> <<>>, avatar |-> FALSE,
     body |-> <<>>]
\* no login call made
NoLogin ==
    [impl |-> None, pc |-> None, emailFills |-> 0, pwFills |-> 0, pwWait |-> None,
     diags |-> <<>>, ret |-> None, p2 |-> NoPage, p3 |-> NoPage]
\* screenshot_review_card not called
NoShot ==
    [env |-> [scroll |-> None, elem |-> None, box |-> None, clip |-> None],
     ok |-> FALSE, path |-> None]

DupIdle == probe = NoProbe /\ savedTexts = {}
FindIdle == cards = <<>> /\ found = NoFound
CapIdle ==
    /\ pc = "idle"
    /\ sel = NoSel
    /\ result = NoResult
    /\ store0 = <<>>
    /\ ctx = ClosedCtx
    /\ artifact = None
    /\ lg = NoLogin
    /\ err = None
    /\ via = None
    /\ shot = NoShot
PubIdle == pubPc = "idle" /\ pubData = <<>> /\ pubQueue = <<>> /\ sends = {}

\* no bounding box, no clip rectangle
NoBox == [x |-> 0, y |-> 0, width |-> 0, height |-> 0]
\* no output path
NoPath == [name |-> None, ts |-> 0]
\* no arguments
NoArgs == [name |-> "", rating |-> 0, date |-> "", store |-> "", badge |-> ""]
\* no renderer call made
NoCall ==
    [id |-> 0, pc |-> "idle", entry |-> None, text |-> <<>>, args |-> NoArgs,
     path |-> NoPath, tried |-> <<>>, ret |-> None]
\* a capture run that has not reached save_post
NoWriter ==
    [pc |-> "idle", text |-> <<>>, data |-> <<>>, uid |-> NoUid, afterOther |-> FALSE]

ClipIdle == bbox = NoBox /\ clip = NoBox
CardIdle == now = 0 /\ files = {} /\ call = NoCall
RaceIdle == writers = <<NoWriter, NoWriter>>
ToolIdle == ClipIdle /\ CardIdle /\ RaceIdle

----------------------------------------------------------------------------
(* SpecDup: save_post and is_duplicate_review called on a store that other   *)
(* tools write to as well                                                    *)

\* largest number of records in the store of SpecDup
MaxDupStore == 3

\* a record written by another tool: same layout, another source tag
ForeignPost(posts, day, caption) ==
    [NewPost(posts, day, <<>>, 0) EXCEPT !.source = "manual", !.generatedContent = caption]

ForeignCaptions == {generate_post_content(TLongA, FallbackRating), TGreatCand}

DupInit ==
    /\ store = <<>>
    /\ today = SetMin(Days)
    /\ DupIdle /\ FindIdle /\ CapIdle /\ PubIdle /\ ToolIdle

DupSavePost ==
    /\ Len(store) < MaxDupStore
    /\ \E t \in DupSaveTexts :
          /\ store' = save_post(store, today, t, FallbackRating)
          /\ savedTexts' = savedTexts \cup {t}
    /\ probe' = NoProbe
    /\ UNCHANGED <<toolVars, today, findVars, capVars, pubVars>>

DupForeignPost ==
    /\ Len(store) < MaxDupStore
    /\ \E c \in ForeignCaptions :
          store' = Append(store, ForeignPost(store, today, c))
    /\ probe' = NoProbe
    /\ UNCHANGED <<toolVars, today, savedTexts, findVars, capVars, pubVars>>

DupQuery ==
    /\ \E t \in DupTexts :
          probe' = [asked |-> TRUE, text |-> t, res |-> is_duplicate_review(store, t)]
    /\ UNCHANGED <<toolVars, store, today, savedTexts, findVars, capVars, pubVars>>

DupNext == DupSavePost \/ DupForeignPost \/ DupQuery

SpecDup == DupInit /\ [][DupNext]_vars

----------------------------------------------------------------------------
(* Claims about the Duplicate Index (SpecDup) *)

\* the part of a caption between its opening quote and the next double quote
HasQuoted(content) == StartsWithChar(content, DQUOTE) /\ Find(content, DQUOTE, 1) > 0
QuotedText(content) == SubSeq(content, 2, Find(content, DQUOTE, 1))
MinusEllipsis(q) == SubSeq(q, 1, Len(q) - 3)

BeginsWith(s, pre) == Len(s) >= Len(pre) /\ SubSeq(s, 1, Len(pre)) = pre

\* C1: after save_post has stored a record for review text t, is_duplicate_review(t)
\* returns true, whatever t is.
C1_SavedTextIsDuplicate ==
    (probe.asked /\ probe.text \in savedTexts) => probe.res[1] = TRUE

\* a google-maps record whose quoted text ends with the ellipsis, and a candidate that
\* begins with that quoted text minus the ellipsis
C2Case(post, text) ==
    /\ post.source = "google-maps"
    /\ HasQuoted(post.generatedContent)
    /\ EndsWith(QuotedText(post.generatedContent), Ellipsis)
    /\ BeginsWith(text, MinusEllipsis(QuotedText(post.generatedContent)))

\* C2 as stated: in that case is_duplicate_review returns true with that record's uid
\* and status.
C2_Original ==
    probe.asked =>
        \A i \in 1..Len(store) :
            C2Case(store[i], probe.text)
                => probe.res = <<TRUE, store[i].uid, store[i].status>>

C2Long(post) ==
    Len(Strip(MinusEllipsis(QuotedText(post.generatedContent)))) >= PrefixLen

SameKey(p, q) ==
    /\ q.source = "google-maps"
    /\ ExistingPrefix(q.generatedContent) = ExistingPrefix(p.generatedContent)

\* C2 amended: if moreover the quoted text minus the ellipsis has at least 100
\* characters once stripped, is_duplicate_review returns true with the uid and status
\* of the oldest google-maps record that has the same 100-character key (that record
\* itself when no older record has it).  With the single caption "Great service!..."
\* stored, the candidate "Great service! Highly recommend." is not a duplicate.
C2_Amended ==
    probe.asked =>
        /\ \A i \in 1..Len(store) :
              (C2Case(store[i], probe.text) /\ C2Long(store[i]))
                  => \E j \in 1..i :
                        /\ SameKey(store[i], store[j])
                        /\ \A k \in 1..(j - 1) : ~SameKey(store[i], store[k])
                        /\ probe.res = <<TRUE, store[j].uid, store[j].status>>
        /\ (/\ Len(store) = 1
            /\ store[1].source = "google-maps"
            /\ QuotedText(store[1].generatedContent) = TGreatEll
            /\ probe.text = TGreatCand) => probe.res = <<FALSE, NoUid, None>>

\* a truncated caption is stored and a longer candidate beginning with it was looked up
C2_Witness ==
    /\ probe.asked
    /\ \E i \in 1..Len(store) :
          /\ C2Case(store[i], probe.text)
          /\ C2Long(store[i])
          /\ Len(probe.text) > CaptionLimit
          /\ probe.res[1] = TRUE

\* the records a lookup of text can match
Matching(posts, text) ==
    {i \in 1..Len(posts) :
        /\ posts[i].source = "google-maps"
        /\ ExistingPrefix(posts[i].generatedContent)
              = <<TRUE, Slice(Strip(text), PrefixLen)>>}

\* C3: is_duplicate_review returns (true, uid, status) of the oldest google-maps record
\* whose normalized 100-character prefix equals the candidate's; records of another
\* source never match; with no such record it returns (false, none, none).
C3_OldestSameSourceMatch ==
    probe.asked =>
        LET m == Matching(store, probe.text)
        IN probe.res = IF m = {}
                       THEN <<FALSE, NoUid, None>>
                       ELSE <<TRUE, store[SetMin(m)].uid, store[SetMin(m)].status>>

\* a lookup that skipped a foreign record with the same quoted text and then had two
\* google-maps records to choose from
C3_Witness ==
    /\ probe.asked
    /\ Cardinality(Matching(store, probe.text)) >= 2
    /\ \E i \in 1..Len(store) :
          /\ store[i].source # "google-maps"
          /\ i < SetMin(Matching(store, probe.text))
          /\ ExistingPrefix(store[i].generatedContent)
                = <<TRUE, Slice(Strip(probe.text), PrefixLen)>>
    /\ probe.res[1] = TRUE

----------------------------------------------------------------------------
(* Review Discovery Engine: find_best_review of capture_gmap_review.py *)

(* A review card as the page presents it.  star and star2 are what the primary *)
(* and the alternate rating selector yield: the first number of the aria-label, *)
(* NoNumber when the element or a number is missing, Throws when the lookup     *)
(* raises.  text and name are the inner texts, with a flag for a lookup that    *)
(* raises or finds nothing.                                                     *)
NoNumber == -1
Throws == -2

Card(star, star2, textOk, text, nameOk, name) ==
    [star |-> star, star2 |-> star2, textOk |-> textOk, text |-> text,
     nameOk |-> nameOk, name |-> name]

\* lines 344-369: rating stays 0 unless a selector yields a number
ExtractRating(card) ==
    LET first == IF card.star >= 0 THEN card.star ELSE 0
    IN IF first = 0
       THEN (IF card.star2 >= 0 THEN card.star2 ELSE 0)
       ELSE first

\* lines 371-376
ExtractText(card) == IF card.textOk THEN Strip(card.text) ELSE <<>>

\* lines 378-383
ExtractName(card) == IF card.nameOk THEN card.name ELSE ""

\* a lookup of lines 348-383 that is made for the card raises (or, for text and
\* name, finds nothing); the alternate rating selector is asked only when the
\* primary one left the rating at 0
FieldFails(card) ==
    \/ card.star = Throws
    \/ card.star <= 0 /\ card.star2 = Throws
    \/ ~card.textOk
    \/ ~card.nameOk

\* Candidates that ends the pass at the first card with a failing lookup
RECURSIVE Candidates_AbortOnError(_, _, _)
Candidates_AbortOnError(posts, page, i) ==
    IF i > Len(page) \/ i > CardLimit \/ FieldFails(page[i])
    THEN <<>>
    ELSE LET rating == ExtractRating(page[i])
             review_text == ExtractText(page[i])
             rest == Candidates_AbortOnError(posts, page, i + 1)
         IN IF /\ rating >= MinRating
               /\ review_text # <<>>
               /\ Len(review_text) > MinTextLen
               /\ ~is_duplicate_review(posts, review_text)[1]
            THEN <<[card |-> i, rating |-> rating, text |-> review_text,
                    name |-> ExtractName(page[i])]>> \o rest
            ELSE rest

\* Candidates without the duplicate filter of lines 389-390
RECURSIVE Candidates_NoDupFilter(_, _, _)
Candidates_NoDupFilter(posts, page, i) ==
    IF i > Len(page) \/ i > CardLimit
    THEN <<>>
    ELSE LET rating == ExtractRating(page[i])
             review_text == ExtractText(page[i])
             rest == Candidates_NoDupFilter(posts, page, i + 1)
         IN IF /\ rating >= MinRating
               /\ review_text # <<>>
               /\ Len(review_text) > MinTextLen
            THEN <<[card |-> i, rating |-> rating, text |-> review_text,
                    name |-> ExtractName(page[i])]>> \o rest
            ELSE rest

\* Candidates without the [:20] cut
RECURSIVE Candidates_NoLimit(_, _, _)
Candidates_NoLimit(posts, page, i) ==
    IF i > Len(page)
    THEN <<>>
    ELSE LET rating == ExtractRating(page[i])
             review_text == ExtractText(page[i])
             rest == Candidates_NoLimit(posts, page, i + 1)
         IN IF /\ rating >= MinRating
               /\ review_text # <<>>
               /\ Len(review_text) > MinTextLen
               /\ ~is_duplicate_review(posts, review_text)[1]
            THEN <<[card |-> i, rating |-> rating, text |-> review_text,
                    name |-> ExtractName(page[i])]>> \o rest
            ELSE rest

\* lines 340-403: the candidates list, in page order, built from cards i, i+1, ...
RECURSIVE Candidates(_, _, _)
Candidates(posts, page, i) ==
    IF i > Len(page) \/ i > CardLimit
    THEN <<>>
    ELSE LET rating == ExtractRating(page[i])
             review_text == ExtractText(page[i])
             rest == Candidates(posts, page, i + 1)
         IN IF /\ rating >= MinRating
               /\ review_text # <<>>
               /\ Len(review_text) > MinTextLen
               /\ ~is_duplicate_review(posts, review_text)[1]
            THEN <<[card |-> i, rating |-> rating, text |-> review_text,
                    name |-> ExtractName(page[i])]>> \o rest
            ELSE rest

\* KeyGreater with the two parts of the key swapped
KeyGreater_LengthFirst(a, b) ==
    \/ Len(a.text) > Len(b.text)
    \/ Len(a.text) = Len(b.text) /\ a.rating > b.rating

\* the sort key (rating, len(text)) of a is greater than that of b
KeyGreater(a, b) ==
    \/ a.rating > b.rating
    \/ a.rating = b.rating /\ Len(a.text) > Len(b.text)

\* put x into a list sorted by descending key, behind the entries with an equal key
RECURSIVE InsertSorted(_, _)
InsertSorted(x, sorted) ==
    IF sorted = <<>>
    THEN <<x>>
    ELSE IF KeyGreater(x, Head(sorted))
         THEN <<x>> \o sorted
         ELSE <<Head(sorted)>> \o InsertSorted(x, Tail(sorted))

\* candidates.sort(key=..., reverse=True): stable, descending
RECURSIVE SortCandidates(_, _)
SortCandidates(cands, done) ==
    IF cands = <<>>
    THEN done
    ELSE SortCandidates(Tail(cands), InsertSorted(Head(cands), done))

find_best_review(posts, page) ==
    LET candidates == Candidates(posts, page, 1)
    IN IF candidates # <<>>
       THEN Head(SortCandidates(candidates, <<>>))
       ELSE NoSel

----------------------------------------------------------------------------
(* SpecFind: find_best_review applied to pages, on a store filled by save_post *)

\* largest number of records in the store of SpecFind
MaxFindStore == 1

T10 == Rep(106, 10)
T20 == Rep(102, 20)
T50 == Rep(103, 50)
T80 == Rep(104, 80)
T90 == Rep(105, 90)

Card5x20 == Card(5, NoNumber, TRUE, T20, TRUE, "Ann")
Card3x50 == Card(3, NoNumber, TRUE, T50, TRUE, "Bob")
Card5x80 == Card(5, NoNumber, TRUE, T80, TRUE, "Cy")
\* rating found by the alternate selector only
Card4x90 == Card(Throws, 4, TRUE, T90, FALSE, "")
\* ten characters: not longer than 10
Card5x10 == Card(5, NoNumber, TRUE, T10, TRUE, "Dee")
\* aria-label whose first number is 10; the text has surrounding whitespace
Card10Padded == Card(10, NoNumber, TRUE, TPadded, TRUE, "Eve")
\* the text lookup raises
Card5NoText == Card(5, 5, FALSE, T80, TRUE, "Fay")

CardSet == {Card5x20, Card5x80, Card4x90, Card5x10, Card10Padded, Card5NoText}

\* Scenario B: ratings [5,3,5], text lengths [20,50,80]
ScenarioBPage == <<Card5x20, Card3x50, Card5x80>>

\* what precedes the freely chosen cards: nothing, 19 or 20 cards that are not
\* eligible, or 20 cards that are
PagePrefixes ==
    {<<>>, Rep(Card3x50, CardLimit - 1), Rep(Card3x50, CardLimit), Rep(Card5x20, CardLimit)}

Tails == UNION {[1..n -> CardSet] : n \in 0..MaxTail}

Pages == {pre \o tail : pre \in PagePrefixes, tail \in Tails} \cup {ScenarioBPage}

FindInit ==
    /\ store = <<>>
    /\ today = SetMin(Days)
    /\ DupIdle /\ FindIdle /\ CapIdle /\ PubIdle /\ ToolIdle

\* one discovery pass over a page
FindBest ==
    /\ ~found.asked
    /\ \E page \in Pages :
          /\ cards' = page
          /\ found' = [asked |-> TRUE, best |-> find_best_review(store, page)]
    /\ UNCHANGED <<toolVars, store, today, dupVars, capVars, pubVars>>

\* the selected review is saved, as the capture run does after a screenshot
FindSaveBest ==
    /\ found.asked
    /\ found.best.card # 0
    /\ Len(store) < MaxFindStore
    /\ store' = save_post(store, today, found.best.text, found.best.rating)
    /\ cards' = <<>>
    /\ found' = NoFound
    /\ UNCHANGED <<toolVars, today, dupVars, capVars, pubVars>>

\* the pass ends without a record being saved
FindDiscard ==
    /\ found.asked
    /\ cards' = <<>>
    /\ found' = NoFound
    /\ UNCHANGED <<toolVars, store, today, dupVars, capVars, pubVars>>

FindNext == FindBest \/ FindSaveBest \/ FindDiscard

SpecFind == FindInit /\ [][FindNext]_vars

----------------------------------------------------------------------------
(* Claims about discovery (SpecFind) *)

\* the cards that satisfy the four conditions of the claim
Eligible(posts, page) ==
    {i \in 1..Len(page) :
        /\ i <= CardLimit
        /\ ExtractRating(page[i]) >= MinRating
        /\ Len(ExtractText(page[i])) > MinTextLen
        /\ ~is_duplicate_review(posts, ExtractText(page[i]))[1]}

CandidateCards(posts, page) ==
    LET c == Candidates(posts, page, 1) IN {c[k].card : k \in 1..Len(c)}

C5_BestIsMaximum ==
    found.asked =>
        /\ \A i \in Eligible(store, cards) :
              /\ found.best.rating >= ExtractRating(cards[i])
              /\ found.best.rating = ExtractRating(cards[i])
                    => Len(found.best.text) >= Len(ExtractText(cards[i]))
        /\ found.best.card # 0 =>
              /\ found.best.rating = ExtractRating(cards[found.best.card])
              /\ found.best.text = ExtractText(cards[found.best.card])
        /\ (cards = ScenarioBPage /\ store = <<>>) => found.best.card = 3

\* Scenario B was run and the third card came back
C5_Witness ==
    /\ found.asked
    /\ cards = ScenarioBPage
    /\ store = <<>>
    /\ found.best.card = 3
    /\ Len(found.best.text) = 80

----------------------------------------------------------------------------
(* Session Authenticator: google_login.py, and the google_login of           *)
(* capture_gmap_review.py that the capture run calls                         *)

\* p in s, for two strings
Contains(s, p) ==
    \E i \in 1..(Len(s) - Len(p) + 1) : SubSeq(s, i, i + Len(p) - 1) = p

\* str.lower() on ASCII text
Lower(s) == [i \in 1..Len(s) |-> IF s[i] \in 65..90 THEN s[i] + 32 ELSE s[i]]

\* google_login.py lines 65-69: "/challenge/", "/interstitialpage", "/speedbump"
url_blockers ==
    {<<47, 99, 104, 97, 108, 108, 101, 110, 103, 101, 47>>,
     <<47, 105, 110, 116, 101, 114, 115, 116, 105, 116, 105, 97, 108, 112, 97, 103, 101>>,
     <<47, 115, 112, 101, 101, 100, 98, 117, 109, 112>>}

\* lines 74-79: "2-step verification", "confirm your recovery phone", "unusual activity",
\* "this device isn't recognized"
content_blockers ==
    {<<50, 45, 115, 116, 101, 112, 32, 118, 101, 114, 105, 102, 105, 99, 97, 116, 105, 111,
       110>>,
     <<99, 111, 110, 102, 105, 114, 109, 32, 121, 111, 117, 114, 32, 114, 101, 99, 111,
       118, 101, 114, 121, 32, 112, 104, 111, 110, 101>>,
     <<117, 110, 117, 115, 117, 97, 108, 32, 97, 99, 116, 105, 118, 105, 116, 121>>,
     <<116, 104, 105, 115, 32, 100, 101, 118, 105, 99, 101, 32, 105, 115, 110, 39, 116, 32,
       114, 101, 99, 111, 103, 110, 105, 122, 101, 100>>}

\* line 84: "recaptcha", "g-recaptcha"
recaptcha_marks ==
    {<<114, 101, 99, 97, 112, 116, 99, 104, 97>>,
     <<103, 45, 114, 101, 99, 97, 112, 116, 99, 104, 97>>}

\* lines 190-196: "myaccount.google.com", "mail.google.com", "accounts.google.com/Default",
\* "accounts.google.com/SignOutOptions", "google.com/maps"
success_indicators ==
    {<<109, 121, 97, 99, 99, 111, 117, 110, 116, 46, 103, 111, 111, 103, 108, 101, 46, 99,
       111, 109>>,
     <<109, 97, 105, 108, 46, 103, 111, 111, 103, 108, 101, 46, 99, 111, 109>>,
     <<97, 99, 99, 111, 117, 110, 116, 115, 46, 103, 111, 111, 103, 108, 101, 46, 99, 111,
       109, 47, 68, 101, 102, 97, 117, 108, 116>>,
     <<97, 99, 99, 111, 117, 110, 116, 115, 46, 103, 111, 111, 103, 108, 101, 46, 99, 111,
       109, 47, 83, 105, 103, 110, 79, 117, 116, 79, 112, 116, 105, 111, 110, 115>>,
     <<103, 111, 111, 103, 108, 101, 46, 99, 111, 109, 47, 109, 97, 112, 115>>}

\* "accounts.google.com/signin"
SigninMark ==
    <<97, 99, 99, 111, 117, 110, 116, 115, 46, 103, 111, 111, 103, 108, 101, 46, 99, 111,
      109, 47, 115, 105, 103, 110, 105, 110>>

\* "accounts.google.com/v3/signin"
SigninV3Mark ==
    <<97, 99, 99, 111, 117, 110, 116, 115, 46, 103, 111, 111, 103, 108, 101, 46, 99, 111,
      109, 47, 118, 51, 47, 115, 105, 103, 110, 105, 110>>

\* "challenge"
ChallengeMark ==
    <<99, 104, 97, 108, 108, 101, 110, 103, 101>>

\* lines 198-202
failure_indicators == {SigninMark, SigninV3Mark, ChallengeMark}

\* lines 230-232: "Sign out", "My Account", "Google Account"
signed_in_texts ==
    {<<83, 105, 103, 110, 32, 111, 117, 116>>,
     <<77, 121, 32, 65, 99, 99, 111, 117, 110, 116>>,
     <<71, 111, 111, 103, 108, 101, 32, 65, 99, 99, 111, 117, 110, 116>>}

\* the account of the run, "owner@example.com"
Email ==
    <<111, 119, 110, 101, 114, 64, 101, 120, 97, 109, 112, 108, 101, 46, 99, 111, 109>>

\* line 233: email.split("@")[0]
EmailName(email) ==
    IF Find(email, 64, 0) < 0 THEN email ELSE SubSeq(email, 1, Find(email, 64, 0))

\* lines 229-234
signed_in_signals(email) == signed_in_texts \cup {EmailName(email)}

\* "https://accounts.google.com/v3/signin/challenge/pwd"
UrlPwd ==
    <<104, 116, 116, 112, 115, 58, 47, 47, 97, 99, 99, 111, 117, 110, 116, 115, 46, 103,
      111, 111, 103, 108, 101, 46, 99, 111, 109, 47, 118, 51, 47, 115, 105, 103, 110, 105,
      110, 47, 99, 104, 97, 108, 108, 101, 110, 103, 101, 47, 112, 119, 100>>

\* "https://accounts.google.com/signin/v2/identifier"
UrlSignin ==
    <<104, 116, 116, 112, 115, 58, 47, 47, 97, 99, 99, 111, 117, 110, 116, 115, 46, 103,
      111, 111, 103, 108, 101, 46, 99, 111, 109, 47, 115, 105, 103, 110, 105, 110, 47, 118,
      50, 47, 105, 100, 101, 110, 116, 105, 102, 105, 101, 114>>

\* "https://myaccount.google.com/"
UrlMyAccount ==
    <<104, 116, 116, 112, 115, 58, 47, 47, 109, 121, 97, 99, 99, 111, 117, 110, 116, 46,
      103, 111, 111, 103, 108, 101, 46, 99, 111, 109, 47>>

\* "https://accounts.google.com/speedbump/gaplustos"
UrlSpeedbump ==
    <<104, 116, 116, 112, 115, 58, 47, 47, 97, 99, 99, 111, 117, 110, 116, 115, 46, 103,
      111, 111, 103, 108, 101, 46, 99, 111, 109, 47, 115, 112, 101, 101, 100, 98, 117, 109,
      112, 47, 103, 97, 112, 108, 117, 115, 116, 111, 115>>

\* "https://accounts.google.com/InterstitialPage?continue=https://mail.google.com/"
UrlInterstitial ==
    <<104, 116, 116, 112, 115, 58, 47, 47, 97, 99, 99, 111, 117, 110, 116, 115, 46, 103,
      111, 111, 103, 108, 101, 46, 99, 111, 109, 47, 73, 110, 116, 101, 114, 115, 116, 105,
      116, 105, 97, 108, 80, 97, 103, 101, 63, 99, 111, 110, 116, 105, 110, 117, 101, 61,
      104, 116, 116, 112, 115, 58, 47, 47, 109, 97, 105, 108, 46, 103, 111, 111, 103, 108,
      101, 46, 99, 111, 109, 47>>

\* "https://www.google.com/"
UrlHome ==
    <<104, 116, 116, 112, 115, 58, 47, 47, 119, 119, 119, 46, 103, 111, 111, 103, 108, 101,
      46, 99, 111, 109, 47>>

\* the addresses the browser may be at during a login
LoginUrls == {UrlPwd, UrlSignin, UrlMyAccount, UrlSpeedbump, UrlInterstitial, UrlHome}
LocalUrls == {UrlPwd, UrlMyAccount, UrlHome}

\* "<p>Welcome</p>"
HtmlPlain ==
    <<60, 112, 62, 87, 101, 108, 99, 111, 109, 101, 60, 47, 112, 62>>

\* "<h1>2-Step Verification</h1>"
Html2Step ==
    <<60, 104, 49, 62, 50, 45, 83, 116, 101, 112, 32, 86, 101, 114, 105, 102, 105, 99, 97,
      116, 105, 111, 110, 60, 47, 104, 49, 62>>

\* '<div class="g-recaptcha">'
HtmlCaptcha ==
    <<60, 100, 105, 118, 32, 99, 108, 97, 115, 115, 61, 34, 103, 45, 114, 101, 99, 97, 112,
      116, 99, 104, 97, 34, 62>>

\* "Welcome"
BodyPlain ==
    <<87, 101, 108, 99, 111, 109, 101>>

\* "Sign out"
BodySignOut ==
    <<83, 105, 103, 110, 32, 111, 117, 116>>

\* "Hi Owner"
BodyOwner ==
    <<72, 105, 32, 79, 119, 110, 101, 114>>

\* what one look at the page gives: is a password field visible, the address,
\* page.content() (readable or raising), an account avatar, the text of the body
LoginPages ==
    [pw : {"absent", "visible"}, url : LoginUrls, readable : BOOLEAN,
     html : {HtmlPlain, Html2Step, HtmlCaptcha}, avatar : BOOLEAN,
     body : {BodyPlain, BodySignOut, BodyOwner}]
       \ [pw : {"absent", "visible"}, url : LoginUrls, readable : {FALSE},
          html : {Html2Step, HtmlCaptcha}, avatar : BOOLEAN,
          body : {BodyPlain, BodySignOut, BodyOwner}]

\* lines 65-72
UrlBlocked(page) == \E b \in url_blockers : Contains(Lower(page.url), b)

\* lines 74-85
ContentBlocked(page) ==
    \/ \E b \in content_blockers : Contains(Lower(page.html), b)
    \/ \E b \in recaptcha_marks : Contains(Lower(page.html), b)

\* check_blocked that does not look for a password field
check_blocked_IgnorePassword(page) ==
    IF ~page.readable THEN FALSE
    ELSE UrlBlocked(page) \/ ContentBlocked(page)

\* lines 50-89, _check_blocked: a visible password field means not blocked; an
\* exception of page.content() is swallowed and means not blocked as well
check_blocked(page) ==
    IF page.pw = "visible" THEN FALSE
    ELSE IF ~page.readable THEN FALSE
    ELSE UrlBlocked(page) \/ ContentBlocked(page)

\* lines 24-33, _save_diag: the file login_diag_{label}_{ts}.png; stamped tells whether
\* the name carries the time
Diag(label, stamped) == [label |-> label, stamped |-> stamped]

\* lines 204-207
SuccessUrl(page) == \E s \in success_indicators : Contains(page.url, s)

\* lines 209-210
FailureUrl(page) == \E f \in failure_indicators : Contains(page.url, f)

\* lines 227-238
SignedInText(page, email) ==
    \E s \in signed_in_signals(email) : Contains(Lower(page.body), Lower(s))

\* VerifyLoginState whose last rule gives Blocked whatever the page shows
VerifyLoginState_Pessimistic(page, email) ==
    IF SuccessUrl(page) THEN [ret |-> "True", diag |-> None]
    ELSE IF FailureUrl(page) /\ page.avatar THEN [ret |-> "True", diag |-> None]
    ELSE IF FailureUrl(page) /\ check_blocked(page)
         THEN [ret |-> "False", diag |-> "blocked_final"]
    ELSE IF SignedInText(page, email) THEN [ret |-> "True", diag |-> None]
    ELSE [ret |-> "False", diag |-> "uncertain"]

\* lines 187-248: the value google_login returns for the page it ends on, and the
\* label of the diagnostic screenshot it saves first
VerifyLoginState(page, email) ==
    IF SuccessUrl(page) THEN [ret |-> "True", diag |-> None]
    ELSE IF FailureUrl(page) /\ page.avatar THEN [ret |-> "True", diag |-> None]
    ELSE IF FailureUrl(page) /\ check_blocked(page)
         THEN [ret |-> "False", diag |-> "blocked_final"]
    ELSE IF SignedInText(page, email) THEN [ret |-> "True", diag |-> None]
    ELSE IF ~check_blocked(page) THEN [ret |-> "True", diag |-> None]
    ELSE [ret |-> "False", diag |-> "uncertain"]

\* google_login returns False after _save_diag(label)
LoginBlocked(label) ==
    lg' = [lg EXCEPT !.pc = "returned", !.ret = "False",
                     !.diags = Append(@, Diag(label, TRUE))]

\* a caller outside the capture run calls google_login(page, email, password)
LoginCall ==
    /\ pc = "idle" /\ pubPc = "idle"
    /\ lg = NoLogin
    /\ lg' = [NoLogin EXCEPT !.impl = "module", !.pc = "email"]
    /\ UNCHANGED <<toolVars, store, today, dupVars, findVars, pubVars, pc, sel, result, store0, ctx,
                   artifact, err, via, shot>>

\* lines 103-135: open the sign-in page, find the email field, fill it, submit it
LoginEmail ==
    /\ lg.impl = "module" /\ lg.pc = "email"
    /\ \E outcome \in {"submitted", "no_field", "raises_before", "raises_after"} :
          CASE outcome = "submitted" ->
                 lg' = [lg EXCEPT !.pc = "password_wait", !.emailFills = @ + 1]
            [] outcome = "no_field" -> LoginBlocked("no_email_field")
            [] outcome = "raises_before" -> LoginBlocked("exception")
            [] OTHER ->
                 lg' = [lg EXCEPT !.pc = "returned", !.ret = "False",
                                  !.emailFills = @ + 1,
                                  !.diags = Append(@, Diag("exception", TRUE))]
    /\ UNCHANGED <<toolVars, store, today, dupVars, findVars, pubVars, pc, sel, result, store0, ctx,
                   artifact, err, via, shot>>

\* lines 137-149: the bounded wait for the password field; when it ends without the
\* field, _check_blocked picks the label and google_login returns False
LoginPasswordWait ==
    /\ lg.impl = "module" /\ lg.pc = "password_wait"
    /\ \/ lg' = [lg EXCEPT !.pc = "password", !.pwWait = "shown"]
       \/ \E page \in LoginPages :
             lg' = [lg EXCEPT !.pc = "returned", !.ret = "False", !.pwWait = "timeout",
                              !.diags = Append(@, Diag(IF check_blocked(page)
                                                       THEN "blocked_after_email"
                                                       ELSE "no_password_field", TRUE))]
    /\ UNCHANGED <<toolVars, store, today, dupVars, findVars, pubVars, pc, sel, result, store0, ctx,
                   artifact, err, via, shot>>

\* lines 151-169: find the password field, fill it, submit it
LoginPassword ==
    /\ lg.impl = "module" /\ lg.pc = "password"
    /\ \E outcome \in {"submitted", "no_field", "raises_before", "raises_after"} :
          CASE outcome = "submitted" ->
                 lg' = [lg EXCEPT !.pc = "check", !.pwFills = @ + 1]
            [] outcome = "no_field" -> LoginBlocked("no_password_field")
            [] outcome = "raises_before" -> LoginBlocked("exception")
            [] OTHER ->
                 lg' = [lg EXCEPT !.pc = "returned", !.ret = "False",
                                  !.pwFills = @ + 1,
                                  !.diags = Append(@, Diag("exception", TRUE))]
    /\ UNCHANGED <<toolVars, store, today, dupVars, findVars, pubVars, pc, sel, result, store0, ctx,
                   artifact, err, via, shot>>

\* lines 171-174: the page after the password was submitted, given to _check_blocked
LoginCheckBlocked ==
    /\ lg.impl = "module" /\ lg.pc = "check"
    /\ \E page \in LoginPages :
          IF check_blocked(page)
          THEN lg' = [lg EXCEPT !.pc = "returned", !.ret = "False", !.p2 = page,
                                !.diags = Append(@, Diag("blocked_after_password", TRUE))]
          ELSE lg' = [lg EXCEPT !.pc = "verify", !.p2 = page]
    /\ UNCHANGED <<toolVars, store, today, dupVars, findVars, pubVars, pc, sel, result, store0, ctx,
                   artifact, err, via, shot>>

\* lines 176-253: the prompts are dismissed, which may change the page, and the page
\* then shown decides; a call that raises ends in the except branch
LoginVerify ==
    /\ lg.impl = "module" /\ lg.pc = "verify"
    /\ \/ \E page \in LoginPages :
             LET v == VerifyLoginState(page, Email)
             IN lg' = [lg EXCEPT !.pc = "returned", !.ret = v.ret, !.p3 = page,
                                 !.diags = IF v.diag = None THEN @
                                           ELSE Append(@, Diag(v.diag, TRUE))]
       \/ LoginBlocked("exception")
    /\ UNCHANGED <<toolVars, store, today, dupVars, findVars, pubVars, pc, sel, result, store0, ctx,
                   artifact, err, via, shot>>

\* the caller has the result; the next call starts from the beginning
LoginReturn ==
    /\ lg.impl = "module" /\ lg.pc = "returned"
    /\ lg' = NoLogin
    /\ UNCHANGED <<toolVars, store, today, dupVars, findVars, pubVars, pc, sel, result, store0, ctx,
                   artifact, err, via, shot>>

----------------------------------------------------------------------------
(* Capture run: capture_google_maps_review of capture_gmap_review.py *)

\* lines 556-561 and 595-600
DuplicateResult(dup, text) ==
    [NoResult EXCEPT !.status = "duplicate", !.existing_uid = dup[2],
                     !.existing_status = dup[3], !.review_text = text]

\* lines 571-578 and 608-615
SavedResult(status, post, rating, text) ==
    [NoResult EXCEPT !.status = status, !.post_id = post.uid, !.rating = rating,
                     !.review_text = text]

\* main that ends with exit code 0 whatever the capture returned
main_AlwaysZero(res) == 0

\* main that reports the duplicate outcome as a failure
main_DuplicateFails(res) == IF res.status \in {None, "duplicate"} THEN 1 ELSE 0

\* lines 639-662: the exit code main returns for the result of the capture
main(res) == IF res.status = None THEN 1 ELSE 0

\* 'He said "wow" today' as the text of a five-star card
CardQuote == Card(5, NoNumber, TRUE, TQuote, TRUE, "Gus")

\* the pages a capture run may find
CapPages == {<<>>, <<Card5x20>>, <<Card3x50, Card5x80>>, <<CardQuote>>}

\* lines 502-519: launch the browser, open the context and the page
CapStart ==
    /\ pc = "idle"
    /\ Len(store) < MaxStore
    /\ pc' = "login"
    /\ ctx' = [browser |-> TRUE, main |-> TRUE, fb |-> FALSE]
    /\ store0' = store
    /\ sel' = NoSel
    /\ result' = NoResult
    /\ artifact' = None
    /\ lg' = NoLogin
    /\ err' = None
    /\ via' = None
    /\ shot' = NoShot
    /\ UNCHANGED <<toolVars, store, today, dupVars, findVars, pubVars>>

\* AfterLogin that gives the run up when login was blocked
AfterLogin_AbortOnBlocked(login_ok) == IF login_ok = "False" THEN "done" ELSE "navigate"

\* lines 523-529: whatever google_login returned, the run goes on to navigate_to_place
AfterLogin(login_ok) == "navigate"

\* lines 522-527 and 174-190: without credentials login is skipped; with them the
\* sign-in page is opened and the email is filled and submitted; a failed goto, an
\* email field that does not show within its wait, or a failed click raises
CapLogin ==
    /\ pc = "login"
    /\ \E outcome \in {"skipped", "submitted", "timeout", "raises"} :
          CASE outcome = "skipped" ->
                 /\ pc' = "navigate"
                 /\ lg' = [lg EXCEPT !.ret = "skipped"]
                 /\ err' = err
            [] outcome = "submitted" ->
                 /\ pc' = "login_password"
                 /\ lg' = [lg EXCEPT !.impl = "local", !.emailFills = @ + 1]
                 /\ err' = err
            [] outcome = "timeout" ->
                 /\ pc' = "error"
                 /\ lg' = [lg EXCEPT !.impl = "local"]
                 /\ err' = "login_email_timeout"
            [] OTHER ->
                 /\ pc' = "error"
                 /\ lg' = [lg EXCEPT !.impl = "local"]
                 /\ err' = "login"
    /\ UNCHANGED <<toolVars, store, today, dupVars, findVars, pubVars, sel, result, store0, ctx,
                   artifact, via, shot>>

\* lines 192-203: wait for the password field, fill it and submit it; the wait raises
\* when the field does not show within its 15 s
CapLoginPassword ==
    /\ pc = "login_password"
    /\ \E outcome \in {"submitted", "timeout", "raises"} :
          CASE outcome = "submitted" ->
                 /\ pc' = "login_verify"
                 /\ lg' = [lg EXCEPT !.pwWait = "shown", !.pwFills = @ + 1]
                 /\ err' = err
            [] outcome = "timeout" ->
                 /\ pc' = "error"
                 /\ lg' = [lg EXCEPT !.pwWait = "timeout"]
                 /\ err' = "login_password_timeout"
            [] OTHER ->
                 /\ pc' = "error"
                 /\ lg' = [lg EXCEPT !.pwWait = "shown", !.pwFills = @ + 1]
                 /\ err' = "login"
    /\ UNCHANGED <<toolVars, store, today, dupVars, findVars, pubVars, sel, result, store0, ctx,
                   artifact, via, shot>>

\* lines 205-229: dismiss the prompts, then classify by the URL alone; a URL of the
\* sign-in or challenge pages gives False after a screenshot to the fixed file
\* login_state.png (which raises if the screenshot fails)
CapLoginVerify ==
    /\ pc = "login_verify"
    /\ \E url \in LocalUrls, shotOk \in BOOLEAN :
          IF Contains(url, SigninMark) \/ Contains(url, ChallengeMark)
          THEN IF shotOk
               THEN /\ pc' = AfterLogin("False")
                    /\ lg' = [lg EXCEPT !.ret = "False",
                                        !.diags = Append(@, Diag("login_state", FALSE))]
                    /\ err' = err
               ELSE /\ pc' = "error"
                    /\ lg' = lg
                    /\ err' = "login"
          ELSE /\ pc' = AfterLogin("True")
               /\ lg' = [lg EXCEPT !.ret = "True"]
               /\ err' = err
    /\ UNCHANGED <<toolVars, store, today, dupVars, findVars, pubVars, sel, result, store0, ctx,
                   artifact, via, shot>>

\* lines 524-533 and 232-272: login_ok is read for the last time; then the place page
\* is found, is not found (return None), a goto times out, or another step raises
CapNavigate ==
    /\ pc = "navigate"
    /\ \E outcome \in {"found", "notfound", "timeout", "raises"} :
          /\ pc' = CASE outcome = "found" -> "reviews"
                     [] outcome = "notfound" -> "done"
                     [] OTHER -> "error"
          /\ ctx' = IF outcome = "notfound" THEN ClosedCtx ELSE ctx
          /\ err' = CASE outcome = "timeout" -> "navigate_timeout"
                      [] outcome = "raises" -> "navigate"
                      [] OTHER -> err
    /\ lg' = NoLogin
    /\ UNCHANGED <<toolVars, store, today, dupVars, findVars, pubVars, sel, result, store0, artifact,
                   via, shot>>

\* AfterReviewsTab that treats a missing Reviews tab as an error of the run
AfterReviewsTab_Fail(reviews_ok) == IF reviews_ok THEN "discover" ELSE "error"

\* lines 541 and 582: with the tab open the run scrolls and looks for a review;
\* without it the run goes straight to the template card
AfterReviewsTab(reviews_ok) == IF reviews_ok THEN "discover" ELSE "fallback"

\* lines 535-541: debug screenshot and click_reviews_tab
CapReviewsTab ==
    /\ pc = "reviews"
    /\ \E outcome \in {"opened", "missing", "raises"} :
          /\ pc' = CASE outcome = "opened" -> AfterReviewsTab(TRUE)
                     [] outcome = "missing" -> AfterReviewsTab(FALSE)
                     [] OTHER -> "error"
          /\ via' = IF outcome = "missing" THEN "no_tab" ELSE via
          /\ err' = IF outcome = "raises" THEN "reviews" ELSE err
    /\ UNCHANGED <<toolVars, store, today, dupVars, findVars, pubVars, sel, result, store0, ctx,
                   artifact, lg, shot>>

\* lines 542-546: scroll, debug screenshot, find_best_review
CapDiscover ==
    /\ pc = "discover"
    /\ \/ \E page \in CapPages :
             /\ cards' = page
             /\ sel' = find_best_review(store, page)
             /\ pc' = "check"
             /\ err' = err
       \/ pc' = "error" /\ sel' = sel /\ err' = "discover" /\ cards' = cards
    /\ UNCHANGED <<toolVars, store, today, dupVars, found, pubVars, result, store0, ctx, artifact,
                   lg, via, shot>>

\* lines 548-561: second duplicate check of the selected review
CapCheck ==
    /\ pc = "check"
    /\ IF sel.card # 0 /\ sel.text # <<>>
       THEN LET dup == is_duplicate_review(store, sel.text)
            IN IF dup[1]
               THEN /\ ctx' = ClosedCtx
                    /\ result' = DuplicateResult(dup, sel.text)
                    /\ pc' = "done"
                    /\ via' = via
               ELSE /\ pc' = "screenshot"
                    /\ UNCHANGED <<ctx, result, via>>
       ELSE /\ pc' = "fallback"
            /\ via' = "no_card"
            /\ UNCHANGED <<ctx, result>>
    /\ UNCHANGED <<toolVars, store, today, dupVars, findVars, pubVars, sel, store0, artifact, lg, err,
                   shot>>

\* what the calls of screenshot_review_card did, in the order it makes them:
\* scroll_into_view_if_needed, the element screenshot, and only after that one raised
\* bounding_box (a box, None, or an exception), and only with a box the clipped page
\* screenshot; None marks a call that was not made
ShotEnvs ==
    {e \in [scroll : {"ok", "raises"}, elem : {"ok", "raises"},
            box : {"box", "none", "raises", None}, clip : {"ok", "raises", None}] :
        /\ (e.box = None) <=> (e.elem = "ok")
        /\ (e.clip = None) <=> (e.box # "box")}

\* the file of lines 563 and 602: screenshots/gmap_review_{timestamp}.png
ReviewPath == "gmap_review"

\* screenshot_review_card without the clipped page screenshot as second try
screenshot_review_card_NoClip(env, screenshot_path) ==
    IF env.elem = "ok"
    THEN [ok |-> TRUE, path |-> screenshot_path]
    ELSE [ok |-> FALSE, path |-> None]

\* lines 413-444: the value returned and the file written; every call sits in a try
screenshot_review_card(env, screenshot_path) ==
    IF env.elem = "ok"
    THEN [ok |-> TRUE, path |-> screenshot_path]
    ELSE IF env.box = "box" /\ env.clip = "ok"
         THEN [ok |-> TRUE, path |-> screenshot_path]
         ELSE [ok |-> FALSE, path |-> None]

\* AfterScreenshot that goes on to save_post whatever screenshot_review_card returned
AfterScreenshot_AlwaysSave(ok) == "save_direct"

\* lines 566 and 580: where the run goes after screenshot_review_card
AfterScreenshot(ok) == IF ok THEN "save_direct" ELSE "fallback"

\* lines 563-568: screenshot_review_card, then close context and browser if it worked
CapScreenshot ==
    /\ pc = "screenshot"
    /\ \E env \in ShotEnvs :
          LET r == screenshot_review_card(env, ReviewPath)
          IN /\ shot' = [env |-> env, ok |-> r.ok, path |-> r.path]
             /\ artifact' = IF r.path # None THEN "captured" ELSE None
             /\ ctx' = IF r.ok THEN ClosedCtx ELSE ctx
             /\ via' = IF AfterScreenshot(r.ok) = "fallback" THEN "shot_failed" ELSE via
             /\ pc' = AfterScreenshot(r.ok)
    /\ UNCHANGED <<toolVars, store, today, dupVars, findVars, pubVars, sel, result, store0, lg, err>>

\* lines 570-578
CapSaveDirect ==
    /\ pc = "save_direct"
    /\ store' = save_post(store, today, sel.text, sel.rating)
    /\ result' = SavedResult("success", store'[Len(store')], sel.rating, sel.text)
    /\ pc' = "done"
    /\ shot' = NoShot
    /\ UNCHANGED <<toolVars, today, dupVars, findVars, pubVars, sel, store0, ctx, artifact, lg, err,
                   via>>

\* CloseMainContext that leaves the main context open
CloseMainContext_Skip(c) == c

\* line 603: await context.close() of the context opened at line 514
CloseMainContext(c) == [c EXCEPT !.main = FALSE]

\* lines 582-603: duplicate check of the fallback text, then the main context is closed
CapFallback ==
    /\ pc = "fallback"
    /\ LET dup == is_duplicate_review(store, FallbackText)
       IN IF dup[1]
          THEN /\ ctx' = ClosedCtx
               /\ result' = DuplicateResult(dup, FallbackText)
               /\ pc' = "done"
          ELSE /\ ctx' = CloseMainContext(ctx)
               /\ result' = result
               /\ pc' = "render"
    /\ shot' = NoShot
    /\ UNCHANGED <<toolVars, store, today, dupVars, findVars, pubVars, sel, store0, artifact, lg, err,
                   via>>

\* lines 487-491: render_fallback_card opens its own context and a page in it; when
\* new_context raises there is no context, when new_page raises the context stays open
CapRenderOpen ==
    /\ pc = "render"
    /\ \/ ctx' = [ctx EXCEPT !.fb = TRUE] /\ pc' = "rendering" /\ err' = err
       \/ \E opened \in BOOLEAN :
             ctx' = [ctx EXCEPT !.fb = opened] /\ pc' = "error" /\ err' = "render"
    /\ UNCHANGED <<toolVars, store, today, dupVars, findVars, pubVars, sel, result, store0, artifact,
                   lg, via, shot>>

\* lines 492-497 and 605: set the content, screenshot the card, close; or a step raises
CapRenderShot ==
    /\ pc = "rendering"
    /\ \/ /\ artifact' = "rendered"
          /\ ctx' = ClosedCtx
          /\ pc' = "save_fallback"
          /\ err' = err
       \/ /\ artifact' = artifact
          /\ ctx' = ctx
          /\ pc' = "error"
          /\ err' = "render"
    /\ UNCHANGED <<toolVars, store, today, dupVars, findVars, pubVars, sel, result, store0, lg, via,
                   shot>>

\* lines 607-615
CapSaveFallback ==
    /\ pc = "save_fallback"
    /\ store' = save_post(store, today, FallbackText, FallbackRating)
    /\ result' = SavedResult("fallback", store'[Len(store')], FallbackRating, FallbackText)
    /\ pc' = "done"
    /\ UNCHANGED <<toolVars, today, dupVars, findVars, pubVars, sel, store0, ctx, artifact, lg, err,
                   via, shot>>

\* lines 617-626: the except branch closes the browser and returns None
CapError ==
    /\ pc = "error"
    /\ ctx' = ClosedCtx
    /\ result' = NoResult
    /\ pc' = "done"
    /\ UNCHANGED <<toolVars, store, today, dupVars, findVars, pubVars, sel, store0, artifact, lg, err,
                   via, shot>>

\* lines 637-662: main reports the result and the process ends
CapExit ==
    /\ pc = "done"
    /\ pc' = "idle"
    /\ sel' = NoSel
    /\ result' = NoResult
    /\ store0' = <<>>
    /\ artifact' = None
    /\ lg' = NoLogin
    /\ err' = None
    /\ via' = None
    /\ shot' = NoShot
    /\ cards' = <<>>
    /\ UNCHANGED <<toolVars, store, today, dupVars, found, pubVars, ctx>>

----------------------------------------------------------------------------
(* Publish run: main of publish.py *)

\* Python truthiness of an id or an error message
Truthy(x) == x # None /\ x # ""

\* scheduledAt values: none, a time that has passed, a time still ahead, and a
\* string datetime.fromisoformat rejects
SchedPast == "2020-01-01T00:00:00Z"
SchedAhead == "2999-01-01T00:00:00Z"
SchedBad == "tomorrow"
SchedKinds == {None, SchedPast, SchedAhead, SchedBad}

\* ScheduleDue that takes every post as due
ScheduleDue_Always(scheduled_at) == TRUE

\* lines 339-356: is the post due now
ScheduleDue(scheduled_at) ==
    IF ~Truthy(scheduled_at) THEN TRUE
    ELSE IF scheduled_at = SchedBad THEN TRUE
    ELSE scheduled_at = SchedPast

\* ToPostFilter without the test of the status
ToPostFilter_AnyStatus(p) == ~Truthy(p.tweetId) /\ ScheduleDue(p.scheduledAt)

\* lines 338-356: does the loop put p on the to_post list
ToPostFilter(p) ==
    p.status = "Approved" /\ ~Truthy(p.tweetId) /\ ScheduleDue(p.scheduledAt)

\* lines 336-356: to_post, as the indices of the posts in data["posts"]
RECURSIVE ToPost(_, _)
ToPost(posts, i) ==
    IF i > Len(posts) THEN <<>>
    ELSE IF ToPostFilter(posts[i])
         THEN <<i>> \o ToPost(posts, i + 1)
         ELSE ToPost(posts, i + 1)

(* What comes back from the Rube workbench call: result is what call_rube_tool *)
(* returned (None on any failure), parsed what parse_workbench_result made of  *)
(* it, error and tweet_id the two keys of the parsed dict.                     *)
Reply(called, parsed, error, tweet_id) ==
    [called |-> called, parsed |-> parsed, error |-> error, tweet_id |-> tweet_id]

RubeReplies ==
    {Reply(FALSE, FALSE, None, None),
     Reply(TRUE, FALSE, None, None),
     Reply(TRUE, TRUE, "rate limited", None),
     Reply(TRUE, TRUE, "partial failure", "1845"),
     Reply(TRUE, TRUE, None, None),
     Reply(TRUE, TRUE, None, ""),
     Reply(TRUE, TRUE, None, "1845")}

\* post_to_x_via_rube that reports success whenever the reply carries no error
post_to_x_via_rube_NoIdCheck(reply) ==
    IF ~reply.called THEN [success |-> FALSE, tweet_id |-> None]
    ELSE IF ~reply.parsed THEN [success |-> FALSE, tweet_id |-> None]
    ELSE IF Truthy(reply.error) THEN [success |-> FALSE, tweet_id |-> None]
    ELSE [success |-> TRUE, tweet_id |-> reply.tweet_id]

\* lines 300-319: the (success, result) pair of post_to_x_via_rube
post_to_x_via_rube(reply) ==
    IF ~reply.called THEN [success |-> FALSE, tweet_id |-> None]
    ELSE IF ~reply.parsed THEN [success |-> FALSE, tweet_id |-> None]
    ELSE IF Truthy(reply.error) THEN [success |-> FALSE, tweet_id |-> None]
    ELSE IF Truthy(reply.tweet_id) THEN [success |-> TRUE, tweet_id |-> reply.tweet_id]
    ELSE [success |-> FALSE, tweet_id |-> None]

\* lines 384-390
MarkPosted(post, tweet_id) ==
    [post EXCEPT !.status = "Posted",
                 !.postedAt = "now",
                 !.tweetId = tweet_id,
                 !.tweetUrl = <<"https://x.com/i/status/", tweet_id>>]

\* the most successful publishes counted for one uid
MaxSends == 3

\* the history of sends after post_to_x_via_rube was called for the record uid and
\* returned ok
LogSend(log, uid, ok) ==
    LET old == {e \in log : e.uid = uid}
    IN IF old = {}
       THEN (IF ok THEN log \cup {[uid |-> uid, ok |-> 1, again |-> FALSE]} ELSE log)
       ELSE LET e == CHOOSE x \in old : TRUE
            IN (log \ old) \cup
                  {[uid |-> uid,
                    ok |-> IF ok /\ e.ok < MaxSends THEN e.ok + 1 ELSE e.ok,
                    again |-> TRUE]}

\* lines 334-362: load the store and collect the posts to publish; with none the run
\* returns at once
PubStart ==
    /\ pubPc = "idle"
    /\ ToPost(store, 1) # <<>>
    /\ pubData' = store
    /\ pubQueue' = ToPost(store, 1)
    /\ pubPc' = "loop"
    /\ UNCHANGED <<toolVars, store, today, dupVars, findVars, capVars, sends>>

\* PubPost that writes its copy of the store after a failed publish as well
PubPost_SaveAlways ==
    /\ pubPc = "loop"
    /\ pubQueue # <<>>
    /\ \E reply \in RubeReplies :
          LET i == Head(pubQueue)
              outcome == post_to_x_via_rube(reply)
              data == IF outcome.success
                      THEN [pubData EXCEPT ![i] = MarkPosted(@, outcome.tweet_id)]
                      ELSE pubData
              last == Tail(pubQueue) = <<>>
          IN /\ store' = data
             /\ pubData' = IF last THEN <<>> ELSE data
             /\ pubQueue' = Tail(pubQueue)
             /\ pubPc' = IF last THEN "idle" ELSE "loop"
             /\ sends' = LogSend(sends, pubData[i].uid, outcome.success)
    /\ UNCHANGED <<toolVars, today, dupVars, findVars, capVars>>

\* lines 367-403: one turn of the loop; after the last one the run ends (405-407)
PubPost ==
    /\ pubPc = "loop"
    /\ pubQueue # <<>>
    /\ \E reply \in RubeReplies :
          LET i == Head(pubQueue)
              outcome == post_to_x_via_rube(reply)
              data == IF outcome.success
                      THEN [pubData EXCEPT ![i] = MarkPosted(@, outcome.tweet_id)]
                      ELSE pubData
              last == Tail(pubQueue) = <<>>
          IN /\ store' = IF outcome.success THEN data ELSE store
             /\ pubData' = IF last THEN <<>> ELSE data
             /\ pubQueue' = Tail(pubQueue)
             /\ pubPc' = IF last THEN "idle" ELSE "loop"
             /\ sends' = LogSend(sends, pubData[i].uid, outcome.success)
    /\ UNCHANGED <<toolVars, today, dupVars, findVars, capVars>>

----------------------------------------------------------------------------
(* The operator and the calendar *)

\* the operator approves a pending post, with or without a schedule
Approve ==
    /\ pc = "idle" /\ pubPc = "idle"
    /\ \E i \in 1..Len(store), s \in SchedKinds :
          /\ store[i].status = "Pending"
          /\ store' = [store EXCEPT ![i] = [@ EXCEPT !.status = "Approved",
                                                     !.approvedAt = "now",
                                                     !.scheduledAt = s]]
    /\ UNCHANGED <<toolVars, today, dupVars, findVars, capVars, pubVars>>

\* between two runs the date changes
DayChange ==
    /\ pc = "idle" /\ pubPc = "idle"
    /\ \E d \in Days \ {today} : today' = d
    /\ UNCHANGED <<toolVars, store, dupVars, findVars, capVars, pubVars>>

----------------------------------------------------------------------------
(* Spec: one store, capture and publish runs that never overlap *)

Init ==
    /\ store = <<>>
    /\ today \in Days
    /\ DupIdle /\ FindIdle /\ CapIdle /\ PubIdle /\ ToolIdle

StartCapture == pubPc = "idle" /\ CapStart
StartPublish == pc = "idle" /\ PubStart

Next ==
    \/ StartCapture
    \/ CapLogin
    \/ CapLoginPassword
    \/ CapLoginVerify
    \/ CapNavigate
    \/ CapReviewsTab
    \/ CapDiscover
    \/ CapCheck
    \/ CapScreenshot
    \/ CapSaveDirect
    \/ CapFallback
    \/ CapRenderOpen
    \/ CapRenderShot
    \/ CapSaveFallback
    \/ CapError
    \/ CapExit
    \/ StartPublish
    \/ PubPost
    \/ Approve
    \/ DayChange

Spec == Init /\ [][Next]_vars

----------------------------------------------------------------------------
(* SpecLogin: calls of google_login of google_login.py, and capture runs followed *)
(* from their own google_login up to the listing navigation                       *)

LoginInit ==
    /\ store = <<>>
    /\ today = SetMin(Days)
    /\ DupIdle /\ FindIdle /\ CapIdle /\ PubIdle /\ ToolIdle

\* a capture run starts while no other caller is in google_login
LoginStartCapture == lg = NoLogin /\ StartCapture

LoginNext ==
    \/ LoginCall
    \/ LoginEmail
    \/ LoginPasswordWait
    \/ LoginPassword
    \/ LoginCheckBlocked
    \/ LoginVerify
    \/ LoginReturn
    \/ LoginStartCapture
    \/ CapLogin
    \/ CapLoginPassword
    \/ CapLoginVerify
    \/ CapNavigate
    \/ CapError
    \/ CapExit

SpecLogin == LoginInit /\ [][LoginNext]_vars

----------------------------------------------------------------------------
(* SpecClip: the clipped page screenshot of screenshot_review_card,          *)
(* capture_gmap_review.py lines 428-440                                      *)

\* line 515: viewport={"width": 1280, "height": 900} of the main context
ViewportW == 1280
ViewportH == 900

\* line 431
padding == 16

Max(a, b) == IF a >= b THEN a ELSE b

\* lines 432-437: the rectangle handed to page.screenshot for a bounding box
ClipRect(box) ==
    [x |-> Max(0, box.x - padding),
     y |-> Max(0, box.y - padding),
     width |-> box.width + padding * 2,
     height |-> box.height + padding * 2]

\* bounding boxes as card.bounding_box() reports them, relative to the viewport: cards
\* well inside it, cards nearer than the padding to an edge, cards reaching over the
\* right or the lower edge, and cards scrolled partly out at the top or the left
BoxXs == {0 - 40, 0, 8, 16, 400, 870, 1200}
BoxYs == {0 - 40, 0, 8, 16, 500, 818}
BoxWidths == {100, 400, 1300}
BoxHeights == {50, 300, 900}
Boxes == [x : BoxXs, y : BoxYs, width : BoxWidths, height : BoxHeights]

ClipInit ==
    /\ store = <<>>
    /\ today = SetMin(Days)
    /\ DupIdle /\ FindIdle /\ CapIdle /\ PubIdle /\ ToolIdle

\* lines 429-438: the box is measured and the page screenshot is taken with the clip
ClipScreenshot ==
    /\ \E box \in Boxes :
          /\ bbox' = box
          /\ clip' = ClipRect(box)
    /\ UNCHANGED <<store, today, dupVars, findVars, capVars, pubVars, cardVars, raceVars>>

ClipNext == ClipScreenshot

SpecClip == ClipInit /\ [][ClipNext]_vars

----------------------------------------------------------------------------
(* Card Renderer: render_review_card.py *)

\* the whitespace textwrap splits at (string.whitespace without the tab, which the
\* texts of this model do not contain)
IsWrapSpace(c) == c \in {10, 11, 12, 13, 32}

\* line 163, width=58
WrapWidth == 58

\* TextWrapper._split for a text without hyphens: the chunks are the maximal runs of
\* whitespace and of other characters, here as (is whitespace, length) in text order
ChunkStarts(t) ==
    {i \in 1..Len(t) : i = 1 \/ IsWrapSpace(t[i]) # IsWrapSpace(t[i - 1])}

Chunks(t) ==
    LET starts == ChunkStarts(t)
        nth(k) == CHOOSE i \in starts : Cardinality({j \in starts : j < i}) = k - 1
        stop(k) == IF k = Cardinality(starts) THEN Len(t) ELSE nth(k + 1) - 1
    IN [k \in 1..Cardinality(starts) |->
           [sp |-> IsWrapSpace(t[nth(k)]), len |-> stop(k) - nth(k) + 1]]

\* the sum of the lengths of the first k chunks
ChunksLen(chunks, k) ==
    LET f[i \in 0..k] == IF i = 0 THEN 0 ELSE f[i - 1] + chunks[i].len
    IN f[k]

\* TextWrapper._wrap_chunks: the number of lines made of the chunks that are left,
\* added to the lines made so far.  For each line: whitespace at its start is
\* dropped unless it is the first line; chunks are taken while they fit; a chunk
\* longer than the width is cut (_handle_long_word) to fill what is left of the line;
\* one whitespace (or empty) chunk at the end is dropped; the line counts if
\* something remains.
RECURSIVE WrapChunks(_, _)
WrapChunks(chunks, lines) ==
    IF chunks = <<>> THEN lines
    ELSE LET ch == IF chunks[1].sp /\ lines > 0 THEN Tail(chunks) ELSE chunks
             fit == CHOOSE k \in 0..Len(ch) :
                        /\ ChunksLen(ch, k) <= WrapWidth
                        /\ k < Len(ch) => ChunksLen(ch, k + 1) > WrapWidth
             cur_len == ChunksLen(ch, fit)
             long == fit < Len(ch) /\ ch[fit + 1].len > WrapWidth
             space_left == WrapWidth - cur_len
             cur_line == IF long
                         THEN SubSeq(ch, 1, fit) \o
                                 <<[sp |-> ch[fit + 1].sp, len |-> space_left]>>
                         ELSE SubSeq(ch, 1, fit)
             rest == IF long
                     THEN <<[ch[fit + 1] EXCEPT !.len = @ - space_left]>> \o
                             SubSeq(ch, fit + 2, Len(ch))
                     ELSE SubSeq(ch, fit + 1, Len(ch))
             last == cur_line[Len(cur_line)]
             kept == IF cur_line # <<>> /\ (last.sp \/ last.len = 0)
                     THEN SubSeq(cur_line, 1, Len(cur_line) - 1)
                     ELSE cur_line
         IN WrapChunks(rest, IF kept # <<>> THEN lines + 1 ELSE lines)

\* WrappedLines that fills every line with 58 characters, whatever they are
WrappedLines_ByLength(text) ==
    IF Len(text) = 0 THEN 1 ELSE (Len(text) + WrapWidth - 1) \div WrapWidth

\* WrappedLines without the 'or [""]' for a text that wraps into no line
WrappedLines_Raw(text) == WrapChunks(Chunks(text), 0)

\* line 163: len(textwrap.wrap(text, width=58) or [""])
WrappedLines(text) ==
    LET n == WrapChunks(Chunks(text), 0) IN IF n = 0 THEN 1 ELSE n

\* lines 86-91: the sizes that enter the height
W == 580
PAD_TOP == 28
PAD_BOT == 24
SCALE == 2

\* lines 146-148: a 1x value in the coordinates of the 2x canvas
S(v) == v * SCALE

\* lines 164-173
LINE_H == S(24)
HEADER_H == S(26 + 14)
SEP1_H == S(1 + 16)
REVIEWER_H == S(40 + 16)
STARS_H == S(18 + 14)
TEXT_H(lines) == lines * LINE_H
SEP2_H == S(14 + 1 + 14)
FOOTER_H == S(18)

\* card_h with one line of height for every text
card_h_OneLine(lines) ==
    S(PAD_TOP) + HEADER_H + SEP1_H + REVIEWER_H + STARS_H + TEXT_H(1) + SEP2_H
        + FOOTER_H + S(PAD_BOT)

\* line 174: the height of the 2x canvas
card_h(lines) ==
    S(PAD_TOP) + HEADER_H + SEP1_H + REVIEWER_H + STARS_H + TEXT_H(lines) + SEP2_H
        + FOOTER_H + S(PAD_BOT)

\* lines 188-248: y of the 2x canvas where the footer row starts, and lines 251-252:
\* the height of the pin drawn there
FooterY(lines) ==
    S(PAD_TOP) + S(26) + S(16) + S(40 + 16) + S(18 + 14) + TEXT_H(lines) + S(14) + S(14)
PIN_W == S(14)

\* line 262: the size of the image that is saved, (W, card_h // SCALE)
FinalSize(lines) == [width |-> W, height |-> card_h(lines) \div SCALE]

\* the size of an image the template backend writes: laid out by the browser
BrowserSize == [width |-> 0, height |-> 0]

\* review texts given to the renderer: empty, blank, one line, three lines (the
\* fallback text of the capture run) and one word of 130 characters
TEmpty == <<>>
TBlank == <<SPACE>>
TLongWord == Rep(ORD_A, 130)
\* 130 characters as well: words of 30, 30, 30 and 37 letters with a space between
TWords130 ==
    Rep(ORD_A + 1, 30) \o <<SPACE>> \o Rep(ORD_A + 1, 30) \o <<SPACE>> \o
    Rep(ORD_A + 1, 30) \o <<SPACE>> \o Rep(ORD_A + 1, 37)
CardTexts == {TEmpty, TBlank, TGreat, FallbackText, TLongWord, TWords130}

\* two sets of the other arguments, differing in every one of them
ArgsA == [name |-> "Sarah M.", rating |-> 5, date |-> "1 week ago", store |-> "Cafe",
          badge |-> ""]
ArgsB == [name |-> "", rating |-> 1, date |-> "", store |-> "Your Business Name",
          badge |-> "Local Guide"]
CardArgs == {ArgsA, ArgsB}

\* number of renderer calls made in a behaviour
MaxCalls == 2

\* the latest second the clock reaches
MaxClock == 1

\* lines 268 and 293: DEFAULT_OUTPUT_DIR / f"review_card_{ts}.png", ts = the clock
\* formatted to the second
OutputPath(ts) == [name |-> "review_card", ts |-> ts]

\* path.write of a backend: the file at the path is created or replaced; calls counts
\* the renderer calls that have written it, by is the last of them
WriteFile(fs, path, backend, text, args, size, id) ==
    LET old == {f \in fs : f.path = path}
        n == IF old = {} THEN 1
             ELSE LET o == CHOOSE f \in old : TRUE
                  IN IF o.by = id THEN o.calls ELSE o.calls + 1
    IN (fs \ old) \cup
          {[path |-> path, backend |-> backend, text |-> text, args |-> args,
            size |-> size, by |-> id, calls |-> n]}

\* lines 161-177 and 262: the image render_card_pillow saves for its arguments
PillowImage(args, text) == FinalSize(WrappedLines(text))

\* PillowImage for every text and argument set a call is made with
CardImages == [args \in CardArgs, text \in CardTexts |-> PillowImage(args, text)]

\* what a backend attempt came to
Tried(backend, outcome) == [b |-> backend, outcome |-> outcome]

\* the ways the template backend of render_card ends (lines 296-324): the template
\* file is missing, playwright cannot be imported, the browser does not launch, a
\* step before the screenshot raises, browser.close() raises after the screenshot
\* was written, or all of it works
TemplateOutcomes ==
    {"no_template", "no_playwright", "launch_failed", "render_failed", "close_failed",
     "ok"}

\* the ways render_card_pillow ends: Pillow cannot be imported (lines 77-83), saving
\* the file raises (lines 266-270), or the file is saved
PillowOutcomes == {"no_pillow", "save_failed", "ok"}

\* AfterTemplate that gives up when the template backend did not work
AfterTemplate_NoFallback(outcome) == "returned"

\* lines 296-327: where render_card goes after the template backend: it returns the
\* path, calls render_card_pillow inside the try (line 306), or falls through to the
\* call of line 327
AfterTemplate(outcome) ==
    CASE outcome = "ok" -> "returned"
      [] outcome = "launch_failed" -> "pillow_in_try"
      [] OTHER -> "pillow"

CardInit ==
    /\ store = <<>>
    /\ today = SetMin(Days)
    /\ DupIdle /\ FindIdle /\ CapIdle /\ PubIdle /\ ToolIdle

\* a second passes; the renderer reads the clock once, when it builds the path, so
\* the seconds that pass during a call are not told apart
CardTick ==
    /\ call.pc \in {"idle", "returned"}
    /\ now < MaxClock
    /\ now' = now + 1
    /\ UNCHANGED <<store, today, dupVars, findVars, capVars, pubVars, clipVars, raceVars,
                   files, call>>

\* lines 290-293: render_card makes the output directory and builds the path from the
\* clock; mkdir raising ends the call
RenderCall ==
    /\ call.pc \in {"idle", "returned"}
    /\ call.id < MaxCalls
    /\ \E text \in CardTexts, args \in CardArgs, mkdir \in {"ok", "raises"} :
          call' = [id |-> call.id + 1,
                   pc |-> IF mkdir = "ok" THEN "template" ELSE "returned",
                   entry |-> "render_card",
                   text |-> text,
                   args |-> args,
                   path |-> IF mkdir = "ok" THEN OutputPath(now) ELSE NoPath,
                   tried |-> <<>>,
                   ret |-> IF mkdir = "ok" THEN None ELSE "raises"]
    /\ UNCHANGED <<store, today, dupVars, findVars, capVars, pubVars, clipVars, raceVars,
                   now, files>>

\* lines 296-324: the template backend
RenderTemplate ==
    /\ call.pc = "template"
    /\ \E outcome \in TemplateOutcomes :
          /\ call' = [call EXCEPT
                         !.pc = AfterTemplate(outcome),
                         !.tried = Append(@, Tried("template", outcome)),
                         !.ret = IF AfterTemplate(outcome) = "returned"
                                 THEN (IF outcome = "ok" THEN "path" ELSE "raises")
                                 ELSE None]
          /\ files' = IF outcome \in {"ok", "close_failed"}
                      THEN WriteFile(files, call.path, "template", call.text, call.args,
                                     BrowserSize, call.id)
                      ELSE files
    /\ UNCHANGED <<store, today, dupVars, findVars, capVars, pubVars, clipVars, raceVars,
                   now>>

\* line 306: render_card_pillow called from inside the try; what it raises is caught
\* at line 321 and the call of line 327 follows
RenderPillowInTry ==
    /\ call.pc = "pillow_in_try"
    /\ \E outcome \in PillowOutcomes :
          /\ call' = [call EXCEPT
                         !.pc = IF outcome = "ok" THEN "returned" ELSE "pillow",
                         !.tried = Append(@, Tried("pillow", outcome)),
                         !.ret = IF outcome = "ok" THEN "path" ELSE None]
          /\ files' = IF outcome = "ok"
                      THEN WriteFile(files, call.path, "pillow", call.text, call.args,
                                     CardImages[call.args, call.text], call.id)
                      ELSE files
    /\ UNCHANGED <<store, today, dupVars, findVars, capVars, pubVars, clipVars, raceVars,
                   now>>

\* line 327: render_card_pillow as the last statement of render_card
RenderPillow ==
    /\ call.pc = "pillow"
    /\ \E outcome \in PillowOutcomes :
          /\ call' = [call EXCEPT
                         !.pc = "returned",
                         !.tried = Append(@, Tried("pillow", outcome)),
                         !.ret = IF outcome = "ok" THEN "path" ELSE "raises"]
          /\ files' = IF outcome = "ok"
                      THEN WriteFile(files, call.path, "pillow", call.text, call.args,
                                     CardImages[call.args, call.text], call.id)
                      ELSE files
    /\ UNCHANGED <<store, today, dupVars, findVars, capVars, pubVars, clipVars, raceVars,
                   now>>

\* lines 60-272: render_card_pillow called directly, with no output_path: the path is
\* built from the clock (lines 265-268)
PillowCall ==
    /\ call.pc \in {"idle", "returned"}
    /\ call.id < MaxCalls
    /\ \E text \in CardTexts, args \in CardArgs, outcome \in PillowOutcomes :
          /\ call' = [id |-> call.id + 1,
                      pc |-> "returned",
                      entry |-> "render_card_pillow",
                      text |-> text,
                      args |-> args,
                      path |-> IF outcome = "no_pillow" THEN NoPath ELSE OutputPath(now),
                      tried |-> <<Tried("pillow", outcome)>>,
                      ret |-> IF outcome = "ok" THEN "path" ELSE "raises"]
          /\ files' = IF outcome = "ok"
                      THEN WriteFile(files, OutputPath(now), "pillow", text, args,
                                     CardImages[args, text], call.id + 1)
                      ELSE files
    /\ UNCHANGED <<store, today, dupVars, findVars, capVars, pubVars, clipVars, raceVars,
                   now>>

CardNext ==
    \/ CardTick
    \/ RenderCall
    \/ RenderTemplate
    \/ RenderPillowInTry
    \/ RenderPillow
    \/ PillowCall

SpecCard == CardInit /\ [][CardNext]_vars

----------------------------------------------------------------------------
(* SpecRace: two capture runs reach save_post (capture_gmap_review.py lines     *)
(* 125-152) with nothing that keeps one from running while the other does.     *)
(* save_post reads the store at line 126, generate_uid reads it again at line   *)
(* 81, and save_posts writes the list read at line 126 plus the new record.     *)

Runs == {1, 2}
Other(r) == 3 - r

\* the reviews the two runs have captured
RaceTexts == {T20, T80}

\* what the store holds before the runs: nothing, or a record of either day
RaceStores == {<<>>} \cup {save_post(<<>>, d, TGreat, FallbackRating) : d \in Days}

RaceInit ==
    /\ store \in RaceStores
    /\ today \in Days
    /\ DupIdle /\ FindIdle /\ CapIdle /\ PubIdle /\ ToolIdle

\* line 126: data = load_posts(); afterOther tells whether the other run had already
\* saved its record when this one began
RaceLoad(r) ==
    /\ writers[r].pc = "idle"
    /\ \E text \in RaceTexts :
          writers' = [writers EXCEPT ![r] =
                         [pc |-> "loaded", text |-> text, data |-> store, uid |-> NoUid,
                          afterOther |-> writers[Other(r)].pc = "saved"]]
    /\ UNCHANGED <<store, today, dupVars, findVars, capVars, pubVars, clipVars, cardVars>>

\* lines 128-129 and 79-84: the record is built; generate_uid reads the clock and the
\* store as they are now
RaceGenerateUid(r) ==
    /\ writers[r].pc = "loaded"
    /\ writers' = [writers EXCEPT ![r].pc = "built", ![r].uid = generate_uid(store, today)]
    /\ UNCHANGED <<store, today, dupVars, findVars, capVars, pubVars, clipVars, cardVars>>

\* RaceSave that writes a store holding the new record only
RaceSave_Truncate(r) ==
    /\ writers[r].pc = "built"
    /\ store' = <<[NewPost(writers[r].data, today, writers[r].text, FallbackRating)
                       EXCEPT !.uid = writers[r].uid]>>
    /\ writers' = [writers EXCEPT ![r].pc = "saved"]
    /\ UNCHANGED <<today, dupVars, findVars, capVars, pubVars, clipVars, cardVars>>

\* lines 149-150: the record is appended to the list read at line 126 and the file is
\* written
RaceSave(r) ==
    /\ writers[r].pc = "built"
    /\ store' = Append(writers[r].data,
                       [NewPost(writers[r].data, today, writers[r].text, FallbackRating)
                           EXCEPT !.uid = writers[r].uid])
    /\ writers' = [writers EXCEPT ![r].pc = "saved"]
    /\ UNCHANGED <<today, dupVars, findVars, capVars, pubVars, clipVars, cardVars>>

RaceNext == \E r \in Runs : RaceLoad(r) \/ RaceGenerateUid(r) \/ RaceSave(r)

SpecRace == RaceInit /\ [][RaceNext]_vars

----------------------------------------------------------------------------
(* SpecUid: save_post called again and again on busy days, so that generate_uid  *)
(* (capture_gmap_review.py lines 79-84) meets days with many records.  Each call *)
(* stores a review of its own; the calendar only moves forward.                  *)

\* largest number of records the store of a busy day grows to
MaxUidStore == 28

\* the review that the n-th call stores: n + 11 letters
UidText(n) == Rep(ORD_A, n + 11)

FirstDay == SetMin(Days)

UidInit ==
    /\ store = <<>>
    /\ today = FirstDay
    /\ DupIdle /\ FindIdle /\ CapIdle /\ PubIdle /\ ToolIdle

\* lines 125-152: one more record for today
UidSavePost ==
    /\ Len(store) < MaxUidStore
    /\ store' = save_post(store, today, UidText(Len(store)), FallbackRating)
    /\ UNCHANGED <<today, dupVars, findVars, capVars, pubVars, toolVars>>

\* midnight passes
UidNextDay ==
    /\ \E d \in Days : d > today /\ today' = d
    /\ UNCHANGED <<store, dupVars, findVars, capVars, pubVars, toolVars>>

UidNext == UidSavePost \/ UidNextDay

SpecUid == UidInit /\ [][UidNext]_vars

----------------------------------------------------------------------------
(* SpecOverlap: capture runs reaching save_post while a publish run (publish.py  *)
(* lines 334-399) is under way, with nothing that keeps the runs apart.  Every   *)
(* run reads the whole store into memory and later writes its copy back.         *)

\* a record of save_post that the operator has approved for publishing at once
ApprovedPost(posts, day, review_text) ==
    [NewPost(posts, day, review_text, FallbackRating)
        EXCEPT !.status = "Approved", !.approvedAt = "now"]

\* the store before the runs: one approved record, or two of the same day
OverlapStores ==
    {<<ApprovedPost(<<>>, d, TGreat)>> : d \in Days} \cup
    {<<ApprovedPost(<<>>, d, TGreat),
       ApprovedPost(<<ApprovedPost(<<>>, d, TGreat)>>, d, T50)>> : d \in Days}

OverlapInit ==
    /\ store \in OverlapStores
    /\ today \in Days
    /\ DupIdle /\ FindIdle /\ CapIdle /\ PubIdle /\ ToolIdle

OverlapNext == RaceNext \/ PubStart \/ PubPost

SpecOverlap == OverlapInit /\ [][OverlapNext]_vars

----------------------------------------------------------------------------
(* Claims about the store under single-writer usage (Spec) *)

SameDay(posts, day) == {i \in 1..Len(posts) : posts[i].uid.mmdd = day}

\* C6: with k stored records of day D, the record saved on day D gets the letter
\* chr(ord('a') + k), and the next generate_uid on that day gives the letter k + 1.
C6_UidSequence ==
    [][Len(store') = Len(store) + 1 =>
          LET k == Cardinality(SameDay(store, today))
              new == store'[Len(store')]
          IN /\ new.uid = [mmdd |-> today, seq |-> ORD_A + k]
             /\ generate_uid(store', today) = [mmdd |-> today, seq |-> ORD_A + k + 1]]_vars

\* a second record of a day has been saved and carries the letter b
C6_Witness ==
    \E i, j \in 1..Len(store) :
        /\ i < j
        /\ store[i].uid.mmdd = store[j].uid.mmdd
        /\ store[i].uid.seq = ORD_A
        /\ store[j].uid.seq = ORD_A + 1

\* C7: runs never overlapping, no two records of the store have the same uid.
C7_UidUnique ==
    \A i, j \in 1..Len(store) : i # j => store[i].uid # store[j].uid

\* two records of one day, the older one already published
C7_Witness ==
    \E i, j \in 1..Len(store) :
        /\ i < j
        /\ store[i].uid.mmdd = store[j].uid.mmdd
        /\ store[i].status = "Posted"

\* C8: a Posted record has a non-empty tweetId; records are created Pending with a
\* null tweetId.
C8_PostedHasTweetId ==
    /\ [](\A i \in 1..Len(store) : store[i].status = "Posted" => Truthy(store[i].tweetId))
    /\ [][Len(store') > Len(store) =>
             /\ store'[Len(store')].status = "Pending"
             /\ store'[Len(store')].tweetId = None]_vars

\* a record has been published
C8_Witness ==
    \E i \in 1..Len(store) : store[i].status = "Posted" /\ store[i].tweetId = "1845"

StatusRank(status) ==
    CASE status = "Pending" -> 1
      [] status = "Approved" -> 2
      [] status = "Posted" -> 3

\* C9: a record is created Pending; its status never moves backwards; a Posted record
\* never changes; the only status change a capture or publish run makes is
\* Approved -> Posted (Pending -> Approved is the operator's, made while no run is active).
C9_StatusForward ==
    [][/\ Len(store') >= Len(store)
       /\ \A i \in 1..Len(store) :
             /\ StatusRank(store'[i].status) >= StatusRank(store[i].status)
             /\ store[i].status = "Posted" => store'[i] = store[i]
             /\ store'[i].status # store[i].status =>
                   \/ store[i].status = "Approved" /\ store'[i].status = "Posted"
                   \/ /\ store[i].status = "Pending" /\ store'[i].status = "Approved"
                      /\ pc = "idle" /\ pubPc = "idle"
       /\ \A i \in (Len(store) + 1)..Len(store') : store'[i].status = "Pending"]_vars

\* a publish run has posted one record of its batch and still holds another
C9_Witness ==
    /\ pubPc = "loop"
    /\ \E i \in 1..Len(store) : store[i].status = "Posted"
    /\ \E i \in 1..Len(store) : store[i].status = "Approved"

\* C10: a capture run changes the store only by save_post, and only once the card
\* screenshot or the fallback rendering has produced its file; a run that ends in
\* failure or in the duplicate outcome leaves the store as it found it.
C10_NoRecordWithoutArtifact ==
    /\ [][(pc # "idle" /\ store' # store) =>
             /\ artifact \in {"captured", "rendered"}
             /\ pc \in {"save_direct", "save_fallback"}
             /\ Len(store') = Len(store) + 1
             /\ SubSeq(store', 1, Len(store)) = store]_vars
    /\ []((pc = "done" /\ result.status \in {None, "duplicate"}) => store = store0)
    /\ []((pc = "done" /\ result.status \in {"success", "fallback"}) =>
             /\ artifact \in {"captured", "rendered"}
             /\ Len(store) = Len(store0) + 1)

\* a run whose card screenshot failed and whose fallback text was already stored:
\* it ends with the duplicate outcome, no file, and the store untouched
C10_Witness ==
    /\ pc = "done"
    /\ result.status = "duplicate"
    /\ sel.card # 0
    /\ artifact = None
    /\ store = store0
    /\ store # <<>>

----------------------------------------------------------------------------
(* Claims about the outcomes of a capture run (Spec) *)

\* C11: when the selected review or the fallback text matches a stored record, the run
\* ends with status "duplicate" carrying the uid and status of that record (the oldest
\* match), the store is as the run found it, and main returns 0 as for a success.
C11_DuplicateOutcome ==
    /\ [][(/\ pc = "check" /\ sel.card # 0 /\ sel.text # <<>>
           /\ Matching(store, sel.text) # {})
             => /\ pc' = "done"
                /\ result'.status = "duplicate"
                /\ result'.review_text = sel.text]_vars
    /\ [][(pc = "fallback" /\ Matching(store, FallbackText) # {})
             => /\ pc' = "done"
                /\ result'.status = "duplicate"
                /\ result'.review_text = FallbackText]_vars
    /\ []((pc = "done" /\ result.status = "duplicate") =>
             LET m == Matching(store, result.review_text)
             IN /\ m # {}
                /\ result.existing_uid = store[SetMin(m)].uid
                /\ result.existing_status = store[SetMin(m)].status
                /\ result.post_id = NoUid
                /\ store = store0
                /\ err = None
                /\ main(result) = 0)

\* a run that found the fallback text in the store, in a record already published
C11_Witness ==
    /\ pc = "done"
    /\ result.status = "duplicate"
    /\ result.review_text = FallbackText
    /\ result.existing_status = "Posted"
    /\ result.existing_uid = store[1].uid

C13_NavigationTimeoutNonFatal ==
    (pc = "done" /\ err = "navigate_timeout") =>
        (result.status \in {"fallback", "duplicate"} /\ main(result) = 0)

\* C20: screenshot_review_card never raises; it returns true exactly when the element
\* screenshot worked, or it raised and bounding_box gave a box and the clipped page
\* screenshot worked, and then the file is at the path it was given; when it returns
\* false no file is written and the run goes on to the template card.
C20_ScreenshotTotal ==
    /\ [][pc = "screenshot" =>
             LET e == shot'.env
             IN /\ pc' \in {"save_direct", "fallback"}
                /\ shot'.ok <=> \/ e.elem = "ok"
                                \/ e.elem = "raises" /\ e.box = "box" /\ e.clip = "ok"
                /\ shot'.ok => /\ shot'.path = ReviewPath
                               /\ artifact' = "captured"
                               /\ pc' = "save_direct"
                /\ ~shot'.ok => /\ shot'.path = None
                                /\ artifact' = None
                                /\ pc' = "fallback"]_vars
    /\ []((pc = "done" /\ via = "shot_failed") => result.status # "success")

\* Scenario D: the element screenshot raised and the clipped page screenshot gave the file
C20_Witness ==
    /\ pc = "save_direct"
    /\ shot.env.elem = "raises"
    /\ shot.env.clip = "ok"
    /\ shot.ok
    /\ shot.path = ReviewPath
    /\ artifact = "captured"

----------------------------------------------------------------------------
(* Claims about the Session Authenticator (SpecLogin) *)

LastDiag(l) == l.diags[Len(l.diags)]

\* C14: whenever a google_login call has returned False, a diagnostic screenshot
\* with the time in its name was requested before the return.
C14_BlockedHasStampedDiag ==
    lg.ret = "False" => (lg.diags # <<>> /\ LastDiag(lg).stamped)

\* no call of google_login of google_login.py raised
NoException(l) == \A i \in 1..Len(l.diags) : l.diags[i].label # "exception"

\* the page of line 171 was still shown when google_login returned
SamePage(l) == l.p2 # NoPage /\ l.p3 \in {NoPage, l.p2}

\* C15: when, after the password was submitted, no password field is visible and the
\* URL has one of the blocked-URL patterns, google_login returns False, whatever else
\* the page shows.
C15_BlockedUrlWins ==
    (/\ lg.impl = "module" /\ lg.pc = "returned"
     /\ SamePage(lg)
     /\ lg.p2.pw = "absent"
     /\ UrlBlocked(lg.p2)) => lg.ret = "False"

\* C16: with no password field visible and no blocked-URL pattern, a URL with a
\* success pattern gives True even when the page carries a CAPTCHA / 2-step /
\* recovery-phone text.
C16_SuccessUrlBeforeBodySignals ==
    (/\ lg.impl = "module" /\ lg.pc = "returned"
     /\ SamePage(lg)
     /\ NoException(lg)
     /\ lg.p2.pw = "absent"
     /\ ~UrlBlocked(lg.p2)
     /\ SuccessUrl(lg.p2)) => lg.ret = "True"

\* what _check_blocked reports as a blocker: with no visible password field, and the
\* content readable, a blocked-URL pattern or a blocker text
BlockerSignal(page) ==
    /\ page.pw # "visible"
    /\ page.readable
    /\ \/ \E b \in url_blockers : Contains(Lower(page.url), b)
       \/ \E b \in content_blockers \cup recaptcha_marks : Contains(Lower(page.html), b)

\* none of the rules before the last decides for this page: no success URL, on a
\* failure URL neither an avatar nor a blocker, no signed-in text in the body
Undecided(page) ==
    /\ ~SuccessUrl(page)
    /\ ~(FailureUrl(page) /\ (page.avatar \/ BlockerSignal(page)))
    /\ ~SignedInText(page, Email)

\* C17: when google_login returns for a page that none of the earlier rules decides,
\* it returns True exactly when _check_blocked reports no blocker on it, without a
\* screenshot; else it returns False, having saved the "uncertain" diagnostic.
C17_OptimisticFallback ==
    (/\ lg.impl = "module" /\ lg.pc = "returned"
     /\ lg.p3 # NoPage
     /\ Undecided(lg.p3)) =>
        /\ lg.ret = "True" <=> ~BlockerSignal(lg.p3)
        /\ lg.ret = "True" => lg.diags = <<>>
        /\ lg.ret = "False" => lg.diags = <<Diag("uncertain", TRUE)>>

\* a call that ended on the speed-bump page and answered "uncertain"
C17_Witness ==
    /\ lg.impl = "module" /\ lg.pc = "returned"
    /\ lg.p3.url = UrlSpeedbump
    /\ lg.p3.pw = "absent"
    /\ lg.ret = "False"
    /\ LastDiag(lg).label = "uncertain"

\* C18: when the wait for the password field ends without the field, the login
\* returns False with a diagnostic screenshot, nothing is raised, and the capture
\* run is not ended by it.
C18_PasswordTimeoutIsBlocked ==
    lg.pwWait = "timeout" =>
        /\ lg.ret = "False"
        /\ lg.diags # <<>>
        /\ err = None
        /\ pc # "error"
        /\ ~(pc = "done" /\ main(result) = 1)

\* C19: a login call fills the email at most once and the password at most once; the
\* outcome it has returned does not change; a call of google_login.py always ends
\* with True or False; and the capture run goes on to navigate_to_place both when its
\* login returned True and when it returned False.
C19_NoRetryCallerProceeds ==
    /\ [](lg.emailFills <= 1 /\ lg.pwFills <= 1)
    /\ [][lg.ret # None => (lg'.ret = lg.ret \/ lg' = NoLogin)]_vars
    /\ []((lg.impl = "module" /\ lg.pc = "returned") => lg.ret \in {"True", "False"})
    /\ [][(pc = "login_verify" /\ lg'.ret \in {"True", "False"}) => pc' = "navigate"]_vars
    /\ [](pc = "navigate" => lg.ret \in {"True", "False", "skipped"})

\* a capture run whose login was blocked after one email and one password and that
\* is about to navigate to the listing
C19_Witness ==
    /\ pc = "navigate"
    /\ lg.ret = "False"
    /\ lg.emailFills = 1
    /\ lg.pwFills = 1
    /\ lg.diags # <<>>

----------------------------------------------------------------------------
(* Claims about the ratings that discovery reads (SpecFind) *)

\* the ratings of the candidates that find_best_review collects from a page
CandidateRatings(posts, page) ==
    LET c == Candidates(posts, page, 1) IN {c[k].rating : k \in 1..Len(c)}

\* C30: every candidate returned by discovery and every Post Record written by
\* save_post has a rating in 0..5 (0 = undetermined), whatever integer the
\* aria-label of the card contains.
C30_RatingInRange ==
    /\ found.asked =>
          /\ found.best.rating \in 0..5
          /\ CandidateRatings(store, cards) \subseteq 0..5
    /\ \A i \in 1..Len(store) : store[i].rating \in 0..5

----------------------------------------------------------------------------
(* Claims about the browser contexts and the exit code of a capture run (Spec) *)

\* render_fallback_card has handed control back to capture_google_maps_review:
\* it returned, or one of its calls raised
RenderingEnded == pc = "save_fallback" \/ (pc = "error" /\ err = "render")

\* C26: the second browser context, opened for the synthetic-card fallback, is closed
\* before control returns to the caller on every exit path of the rendering
\* operation, including when rendering or the screenshot raises.
C26_FallbackContextClosed == RenderingEnded => ~ctx.fb

\* C27: at every point of a capture run at most one browser context (and so one page)
\* is open: the main context is closed before the fallback rendering context is
\* created, and the two are never open together.
C27_OneContext ==
    /\ ~(ctx.main /\ ctx.fb)
    /\ (ctx.main \/ ctx.fb) => ctx.browser
    /\ pc \in {"render", "rendering", "save_fallback"} => ~ctx.main

\* the fallback context is open, the main one closed
C27_Witness == pc = "rendering" /\ ctx.fb /\ ~ctx.main /\ ctx.browser

\* the run failed: an exception reached the except branch, or the place page was not
\* found; either way capture_google_maps_review returned None
RunFailed == err # None \/ result.status = None

\* C29: the capture program exits with a non-zero code exactly when the run failed
\* (capture returned no result); runs ending in success, fallback or duplicate exit
\* with code 0.
C29_ExitCode ==
    pc = "done" =>
        /\ main(result) # 0 <=> RunFailed
        /\ result.status \in {"success", "fallback", "duplicate"} => main(result) = 0
        /\ result.status \in {"success", "fallback", "duplicate", None}

\* a run whose navigation or a later step raised has ended, and exits with 1
C29_Witness == pc = "done" /\ err # None /\ result.status = None /\ main(result) = 1

----------------------------------------------------------------------------
(* Claims about the clip rectangle (SpecClip) *)

\* C21: the clip rectangle is the bounding box expanded by 16px on all four sides and
\* clamped to the viewport: for every bounding box the clip lies entirely inside the
\* viewport (x >= 0, y >= 0, x + width <= viewport width, y + height <= viewport
\* height).
C21_ClipInsideViewport ==
    bbox # NoBox =>
        /\ clip.x >= 0
        /\ clip.y >= 0
        /\ clip.x + clip.width <= ViewportW
        /\ clip.y + clip.height <= ViewportH

----------------------------------------------------------------------------
(* Claims about the Card Renderer (SpecCard) *)

\* the file the call in progress has its path on, if it exists
CallFiles == {f \in files : f.path = call.path}

\* the last backend attempt of the call
LastTried == call.tried[Len(call.tried)]

\* C22: render_card tries the template backend first and the raster backend only
\* after the template backend is unavailable or has failed; it returns a PNG path
\* whenever at least one backend succeeds and fails only if both backends fail.
C22_BackendOrder ==
    call.entry = "render_card" =>
        /\ \A i \in 1..Len(call.tried) :
              /\ (i = 1) <=> (call.tried[i].b = "template")
              /\ i > 1 => call.tried[1].outcome # "ok"
        /\ call.pc = "returned" =>
              /\ call.ret = "path" <=> \E i \in 1..Len(call.tried) : call.tried[i].outcome = "ok"
              /\ call.ret = "path" => \E f \in CallFiles : f.by = call.id
              /\ (call.ret = "raises" /\ call.path # NoPath) =>
                    /\ Len(call.tried) >= 2
                    /\ call.tried[1].b = "template" /\ call.tried[1].outcome # "ok"
                    /\ LastTried.b = "pillow" /\ LastTried.outcome # "ok"

\* the template backend failed, the raster backend wrote the file, the path came back
C22_Witness ==
    /\ call.entry = "render_card"
    /\ call.pc = "returned"
    /\ call.ret = "path"
    /\ Len(call.tried) = 2
    /\ call.tried[1] = Tried("template", "render_failed")
    /\ call.tried[2] = Tried("pillow", "ok")
    /\ \E f \in CallFiles : f.backend = "pillow" /\ f.by = call.id

\* the images written by the raster backend
RasterFiles == {f \in files : f.backend = "pillow"}

\* the lines each text wraps into at width 58, whether or not there is any
LinesOf == [text \in CardTexts |-> WrapChunks(Chunks(text), 0)]

\* C23: the size of a raster image depends on the text only: the width is 580, the
\* height 244 + 24 * n with n = max(1, lines the text wraps into at width 58); two
\* renders of the same text have the same height whatever the invocation time, name,
\* rating, date, store and badge.
C23_RasterSizeFromText ==
    /\ \A f \in RasterFiles :
          /\ f.size.width = 580
          /\ f.size.height = 244 + 24 * Max(1, LinesOf[f.text])
    /\ \A f, g \in RasterFiles : f.text = g.text => f.size.height = g.size.height

\* the three-line text was rendered twice, at different seconds and with different
\* other arguments
C23_Witness ==
    \E f, g \in RasterFiles :
        /\ f.text = FallbackText /\ g.text = FallbackText
        /\ f.path.ts # g.path.ts
        /\ f.args = ArgsA /\ g.args = ArgsB
        /\ f.size.height = 316 /\ g.size.height = 316

\* the number of body lines of the card for the empty text
EmptyLines == WrappedLines(TEmpty)

\* the call in progress was made with rating 5 and the empty text
EmptyTextCall == call.text = TEmpty /\ call.args.rating = 5 /\ call.pc = "returned"

\* C24: the renderer called with rating 5 and empty text does not fail: a backend
\* that works returns a PNG path, and the raster card has the fixed-height header
\* and footer sections around a body of one blank line, height 268.
C24_EmptyTextCard ==
    EmptyTextCall =>
        /\ (\E i \in 1..Len(call.tried) : call.tried[i].outcome = "ok") => call.ret = "path"
        /\ \A f \in CallFiles :
              (f.by = call.id /\ f.backend = "pillow") =>
                  /\ f.size = [width |-> 580, height |-> 268]
                  /\ EmptyLines = 1
                  /\ S(PAD_TOP) + HEADER_H <= FooterY(EmptyLines)
                  /\ FooterY(EmptyLines) + PIN_W + S(PAD_BOT) <= card_h(EmptyLines)

\* the raster backend has rendered the empty text with rating 5
C24_Witness ==
    /\ EmptyTextCall
    /\ call.ret = "path"
    /\ LastTried = Tried("pillow", "ok")
    /\ \E f \in CallFiles : f.by = call.id /\ f.size.height = 268

\* C25: artifacts are never mutated after creation: no render call writes to a path
\* that an earlier call already produced, so the artifacts of distinct calls have
\* distinct paths and a file a Post Record refers to is never overwritten.
C25_ArtifactsNeverOverwritten == \A f \in files : f.calls = 1

----------------------------------------------------------------------------
(* Claims about concurrent capture runs (SpecRace) *)

\* the two runs did not follow one another: neither began save_post after the other
\* had saved
Interleaved == ~writers[1].afterOther /\ ~writers[2].afterOther

\* C28: without single-writer usage the uid sequence can race: when two capture runs
\* of the same day interleave their load, generate_uid and save steps they are
\* assigned the same uid -- always when both have generated it before either has
\* saved, and never when one run follows the other.
C28_UidRace ==
    /\ (writers[1].pc = "built" /\ writers[2].pc = "built") =>
          writers[1].uid = writers[2].uid
    /\ (writers[1].pc \in {"built", "saved"} /\ writers[2].pc \in {"built", "saved"}
          /\ writers[1].uid = writers[2].uid) => Interleaved

\* both runs have saved a record under the same uid of today
C28_Witness ==
    /\ writers[1].pc = "saved"
    /\ writers[2].pc = "saved"
    /\ writers[1].uid = writers[2].uid
    /\ writers[1].uid.mmdd = today
    /\ store[Len(store)].uid = writers[1].uid

----------------------------------------------------------------------------
(* Claims about uids on busy days (SpecUid) *)

\* the sequence letters: 'a' .. 'z'
SeqLetters == ORD_A .. (ORD_A + 25)

\* C31: every uid that generate_uid assigned is "tw-", the MMDD of its day and
\* exactly one letter of a..z, however many records the day already had
C31_UidFormat ==
    \A i \in 1..Len(store) :
        /\ store[i].uid.mmdd \in Days
        /\ store[i].uid.seq \in SeqLetters

----------------------------------------------------------------------------
(* Claims about failing lookups during discovery (SpecFind) *)

\* C32: when a lookup of the rating, the text or the name of a card among the first
\* 20 fails, the pass goes on: the field stays at 0 / empty (the rating is then what
\* the alternate selector gives, if anything), every other card is still evaluated,
\* so the result is an eligible card that no eligible card outranks, and a card
\* whose text or rating stayed at its default is not the one returned.
C32_FailuresIsolated ==
    found.asked =>
        \A j \in 1..Len(cards) :
            (j <= CardLimit /\ FieldFails(cards[j])) =>
                /\ \A i \in Eligible(store, cards) :
                      /\ found.best.card # 0
                      /\ ~KeyGreater([rating |-> ExtractRating(cards[i]),
                                      text |-> ExtractText(cards[i])], found.best)
                /\ found.best.card = j =>
                      /\ ~cards[j].nameOk => found.best.name = ""
                      /\ cards[j].star = Throws => found.best.rating = cards[j].star2
                      /\ cards[j].textOk
                /\ (~cards[j].textOk \/ (cards[j].star <= 0 /\ cards[j].star2 <= 0)) =>
                      found.best.card # j

\* the text lookup of the first card raised and the eligible card after it was
\* returned
C32_Witness ==
    /\ found.asked
    /\ Len(cards) >= 2
    /\ ~cards[1].textOk
    /\ cards[1].star >= MinRating
    /\ found.best.card = 2
    /\ found.best.text = ExtractText(cards[2])

----------------------------------------------------------------------------
(* Claims about the height of the raster card (SpecCard) *)

\* C33 as stated: any two raster images whose texts have the same number of
\* characters have the same height.
C33_Original ==
    \A f, g \in RasterFiles : Len(f.text) = Len(g.text) => f.size.height = g.size.height

\* the body lines of the card of a text
BodyLines(text) == Max(1, LinesOf[text])

\* C33, amended: the height of a raster image is a function of the number of lines
\* its text wraps into at width 58 (one line at least), not of its length: two
\* images have the same height exactly when their texts make the same number of
\* lines.
C33_Amended ==
    \A f, g \in RasterFiles :
        (BodyLines(f.text) = BodyLines(g.text)) <=> (f.size.height = g.size.height)

\* two texts of different lengths that both make three lines were rendered, to the
\* same height
C33_Witness ==
    \E f, g \in RasterFiles :
        /\ f.text = FallbackText /\ g.text = TLongWord
        /\ Len(f.text) # Len(g.text)
        /\ BodyLines(f.text) = 3 /\ BodyLines(g.text) = 3
        /\ f.size.height = g.size.height

----------------------------------------------------------------------------
(* Claims about overlapping runs (SpecOverlap) *)

\* the records of a list
RecordsOf(posts) == {posts[i] : i \in 1..Len(posts)}

\* the record that capture run r has saved is in the store
Present(r) ==
    \E i \in 1..Len(store) :
        /\ store[i].uid = writers[r].uid
        /\ store[i].generatedContent =
              generate_post_content(writers[r].text, FallbackRating)

\* C34 as stated: a record that a capture run has appended is in the store from
\* then on, whatever other run writes the store afterwards.
C34_Original == \A r \in Runs : writers[r].pc = "saved" => Present(r)

\* the uids and captions of the records of a list
KeysOf(posts) == {<<p.uid, p.generatedContent>> : p \in RecordsOf(posts)}

\* this step is the write of a run whose copy of the store is posts
WritesCopy(posts) ==
    \/ pubPc = "loop" /\ pubQueue' # pubQueue /\ store' # store /\ posts = pubData
    \/ \E r \in Runs :
          writers[r].pc = "built" /\ writers'[r].pc = "saved" /\ posts = writers[r].data

\* C34, amended: a run's copy holds every record that is in the store when the run
\* reads it, and a run that writes the store keeps every record of its copy, so a
\* record is never lost to a run that read the store after the record was appended
\* (runs that do not overlap); it is lost exactly to a run that read the store
\* before the append and writes its copy afterwards.
C34_Amended ==
    [][/\ (pubPc = "idle" /\ pubPc' = "loop") => pubData' = store
       /\ \A r \in Runs :
             (writers[r].pc = "idle" /\ writers'[r].pc = "loaded") =>
                 writers'[r].data = store
       /\ \A posts \in {pubData} \cup {writers[r].data : r \in Runs} :
             WritesCopy(posts) =>
                 /\ KeysOf(posts) \subseteq KeysOf(store')
                 /\ KeysOf(store) \ KeysOf(store') \subseteq KeysOf(store) \ KeysOf(posts)
       /\ (\A posts \in {pubData} \cup {writers[r].data : r \in Runs} :
              ~WritesCopy(posts)) => KeysOf(store) \subseteq KeysOf(store')
      ]_vars

\* a capture run read the store after the other one had saved, and saved its own
\* record next to it: both records are in the store
C34_Witness ==
    \E r \in Runs :
        /\ writers[r].pc = "saved" /\ writers[Other(r)].pc = "saved"
        /\ writers[r].afterOther
        /\ Present(r) /\ Present(Other(r))
        /\ writers[r].uid # writers[Other(r)].uid

----------------------------------------------------------------------------
(* Claims about the synthetic fallback review (Spec) *)

\* the caption that save_post stores for the fallback text
FallbackCaption == generate_post_content(FallbackText, FallbackRating)

\* the records whose caption quotes the fallback text
FallbackRecords(posts) ==
    {i \in 1..Len(posts) : posts[i].generatedContent = FallbackCaption}

\* C35: with capture runs that do not overlap the store never holds more than one
\* record of the synthetic fallback review: a run that reaches the fallback path
\* while such a record exists ends with the duplicate outcome and leaves the store
\* as it was.
C35_OneFallbackRecord ==
    /\ [](Cardinality(FallbackRecords(store)) <= 1)
    /\ [][(pc = "fallback" /\ FallbackRecords(store) # {})
             => /\ pc' = "done"
                /\ result'.status = "duplicate"
                /\ store' = store]_vars
    /\ []((pc = "done" /\ via # None /\ FallbackRecords(store0) # {})
             => /\ result.status = "duplicate"
                /\ result.review_text = FallbackText
                /\ store = store0)

\* a run reached the fallback path on a later day than the one the fallback record
\* is from, and ended with the duplicate outcome; the record is still the only one
C35_Witness ==
    /\ pc = "done"
    /\ via # None
    /\ result.status = "duplicate"
    /\ FallbackRecords(store0) = {1}
    /\ store = store0
    /\ Len(store) = 1
    /\ store[1].uid.mmdd # today

----------------------------------------------------------------------------
(* Claims about the second duplicate check of a capture run (Spec) *)

\* the cards among the first 20 with a rating of 4 or more and a text longer than
\* 10 characters
Rated(page) ==
    {i \in 1..Len(page) :
        /\ i <= CardLimit
        /\ ExtractRating(page[i]) >= MinRating
        /\ Len(ExtractText(page[i])) > MinTextLen}

\* the page has such cards and the Duplicate Index knows the text of each of them
AllStored(posts, page) ==
    /\ Rated(page) # {}
    /\ \A i \in Rated(page) : is_duplicate_review(posts, ExtractText(page[i]))[1]

\* C36: with runs that do not overlap, the review that find_best_review returned is
\* never a duplicate at the second check; the check step goes on to the screenshot or
\* to the fallback path, the duplicate outcome is reached on the fallback path only,
\* and a run whose page holds only reviews that are already stored takes the
\* fallback path.
C36_SecondCheckPasses ==
    /\ []((pc = "check" /\ sel.card # 0) => ~is_duplicate_review(store, sel.text)[1])
    /\ [][pc = "check" => pc' \in {"screenshot", "fallback"}]_vars
    /\ []((pc = "done" /\ result.status = "duplicate") => via # None)
    /\ [][(pc = "check" /\ AllStored(store, cards))
             => (pc' = "fallback" /\ via' = "no_card")]_vars

\* the only eligible review of the page is stored already, and the run is on the
\* fallback path
C36_Witness ==
    /\ pc = "fallback"
    /\ via = "no_card"
    /\ Len(cards) = 1
    /\ AllStored(store, cards)
    /\ store = store0

----------------------------------------------------------------------------
(* Claims about a password field that stays visible (SpecLogin) *)

\* the pages that show a password field
PasswordPages == {page \in LoginPages : page.pw = "visible"}

----------------------------------------------------------------------------
(* Claims about what a publish run sends (Spec) *)

\* this step hands the record at the head of the queue to post_to_x_via_rube
SendStep == pubPc = "loop" /\ pubQueue' # pubQueue

\* C38: with publish runs that do not overlap, a record is handed to
\* post_to_x_via_rube only while the store has it as Approved, without a tweetId, and
\* with a scheduledAt that is null, due or unparsable; a record that was published
\* with success is Posted with its tweet id, was published once, and was never
\* handed over again.
C38_SentOnlyWhenDueAndOnce ==
    /\ [][SendStep =>
            LET i == Head(pubQueue)
            IN /\ i <= Len(store)
               /\ store[i] = pubData[i]
               /\ store[i].status = "Approved"
               /\ ~Truthy(store[i].tweetId)
               /\ store[i].scheduledAt \in {None, SchedPast, SchedBad}]_vars
    /\ [](\A e \in sends : e.ok = 1 /\ ~e.again)
    /\ [](\A e \in sends :
             \E i \in 1..Len(store) :
                 /\ store[i].uid = e.uid
                 /\ store[i].status = "Posted"
                 /\ Truthy(store[i].tweetId))

\* the second record was published by an earlier run; the run under way is about to
\* send the first record and does not send the second again
C38_Witness ==
    /\ pubPc = "loop"
    /\ pubQueue = <<1>>
    /\ Len(store) = 2
    /\ store[2].status = "Posted"
    /\ pubData[2].status = "Posted"
    /\ sends = {[uid |-> store[2].uid, ok |-> 1, again |-> FALSE]}

----------------------------------------------------------------------------
(* Claims about a publish that fails (SpecOverlap) *)

\* how often each uid was published with success
Oks(log) == {<<e.uid, e.ok>> : e \in log}

\* this step hands a record to post_to_x_via_rube, which reports a failure
FailedSend == SendStep /\ Oks(sends') = Oks(sends)

\* C39: a publish that fails changes nothing: the store is left as it is -- also
\* when a capture run has written it since the publish run read it -- and the
\* record keeps its status, postedAt, tweetId and tweetUrl in the run's copy; the
\* run goes on with the next record of the batch and ends only after the last.
C39_FailedPublishChangesNothing ==
    /\ [][FailedSend =>
            /\ store' = store
            /\ Tail(pubQueue) # <<>> =>
                  /\ pubPc' = "loop"
                  /\ pubQueue' = Tail(pubQueue)
                  /\ pubData' = pubData
            /\ Tail(pubQueue) = <<>> => pubPc' = "idle"]_vars
    /\ [](pubPc = "loop" <=> pubQueue # <<>>)

\* the publish of the first record of a batch of two has failed; a capture run has
\* appended its record in the meantime, the store still has it, and the second
\* record is next
C39_Witness ==
    /\ pubPc = "loop"
    /\ pubQueue = <<2>>
    /\ sends = {}
    /\ ToPostFilter(pubData[1])
    /\ Len(pubData) = 2
    /\ Len(store) = 3
    /\ store[1] = pubData[1]
    /\ \E r \in Runs : writers[r].pc = "saved" /\ Present(r)

============================================================================
